---- MODULE Spec2Model ----
(***************************************************************************)
(* Model of the options strategy bot: the position ledger                  *)
(* (src/portfolio.py, PortfolioManager) and the strategy engine with its   *)
(* trailing stop (src/main.py, OptionsStrategyBot).                        *)
(*                                                                         *)
(* Money is modelled as exact rationals [n, d] in lowest terms (Python     *)
(* floats in the source; rounding error of the float arithmetic is not     *)
(* modelled).                                                              *)
(***************************************************************************)
EXTENDS Integers, Sequences, FiniteSets, TLC

(***************************************************************************)
(* Bounds of the model.                                                    *)
(***************************************************************************)
\* place_order calls that get an order id, per behaviour
MaxOrders == 3
\* iterations of the trading loop, per behaviour
MaxTicks == 6
\* place_order calls and update() calls of the simulated ledger's client,
\* per behaviour
MaxFills == 3
MaxUpdates == 2

(***************************************************************************)
(* Exact rational arithmetic.                                              *)
(***************************************************************************)
Abs(x) == IF x < 0 THEN -x ELSE x

RECURSIVE GCD(_, _)
GCD(a, b) == IF b = 0 THEN a ELSE GCD(b, a % b)

\* the rational n/d (d # 0) in lowest terms with a positive denominator
Rat(n, d) ==
    LET g == GCD(Abs(n), Abs(d))
        s == IF d < 0 THEN -1 ELSE 1
    IN  [n |-> (s * n) \div g, d |-> (s * d) \div g]

R(i) == [n |-> i, d |-> 1]
Zero == R(0)
RAdd(a, b) == Rat(a.n * b.d + b.n * a.d, a.d * b.d)
RSub(a, b) == Rat(a.n * b.d - b.n * a.d, a.d * b.d)
RMul(a, b) == Rat(a.n * b.n, a.d * b.d)
RDiv(a, b) == Rat(a.n * b.d, a.d * b.n)
RLt(a, b) == a.n * b.d < b.n * a.d
RLe(a, b) == a.n * b.d <= b.n * a.d
RGt(a, b) == RLt(b, a)
RGe(a, b) == RLe(b, a)

(***************************************************************************)
(* Values.                                                                 *)
(***************************************************************************)
\* Python's None where the other values are records, where they are strings
\* and where they are times
None == [none |-> TRUE]
NoneStr == "None"
\* market_data.get_symbol_data raised instead of returning
FeedError == [error |-> TRUE]
NoTime == 0 - 1

\* f"NSE:NIFTY{expiry_str}{int(strike)}CE": the option identifier, with the
\* expiry date kept as its day number
OptionSymbol(expiry, strike, cls) == <<"NSE:NIFTY", expiry, strike, cls>>

\* the symbols the ledger is driven with when it is exercised on its own
OrderSymbols == {OptionSymbol(3, 19750, "CE"), OptionSymbol(3, 19650, "CE")}
OrderActions == {"BUY", "SELL"}
OrderQuantities == {0, 10, 15}
OrderPrices == {R(0), R(100), R(120)}
OrderTypes == {"LIMIT", "MARKET"}
\* what auth.make_authenticated_request returns: the broker's Ok result, or None
BrokerResponses == {"Ok", NoneStr}
\* config['backtesting']['initial_capital'] as configured
ConfiguredCapitals == {R(3000)}
\* the broker's Limits response in live mode
LimitsResponses == {None, [cash |-> R(5000), marginused |-> R(500)]}

VARIABLES
    \* PortfolioManager
    positions,          \* dict symbol -> position record
    orders,             \* dict order_id -> order (its status: never read back)
    cash_balance,
    initial_capital,
    total_value,
    paper_trading,
    realized_pnl,
    order_counter,
    pending_orders,     \* dict order_id -> order (its status)
    trades_history,     \* list of trades (their order ids: never read back)
    equity_curve,       \* list of [value, pnl]
    \* the last place_order call: its arguments, its return value and the
    \* order dict as the call left it
    call,
    ret,
    last_order,
    \* per symbol, the sum of the signed fill deltas since the symbol last had
    \* no position record
    net_since_empty,
    \* the place_order calls of the last operation (a client's call, a loop
    \* iteration, a shutdown), in order, each with what it returned
    tick_calls,
    \* OptionsStrategyBot
    running,
    bot_positions,      \* self.positions: {} or the entry record
    last_sl_hit_time,
    highest_profit,
    trailing_sl_active,
    current_sl_level,
    \* environment
    pause_file,         \* os.path.exists('trading_pause.txt')
    emergency_file,     \* os.path.exists('EMERGENCY_STOP.txt')
    control_op,         \* the last control operation and what it returned
    now,                \* wall clock, minutes since Monday 00:00
    ticks,              \* loop iterations so far
    \* the combined P&L the monitor computed in the last tick (None if it did
    \* not compute one), and how many of the values it computed since the
    \* entry are, in order, those of ExampleSequence (NoMatch if they differ)
    tick_pnl,
    matched,
    \* the branch of _trading_loop the last iteration took
    tick_branch,
    \* what happened to the feed's data in the last iteration: "leg_skipped"
    \* if _calculate_strategy_pnl passed over a leg (no market data or no
    \* ledger position), "feed_error" if get_symbol_data raised
    tick_events,
    \* the threads
    loop_pc,            \* the trading thread: "none" (not started), "top"
                        \* (at the while), "body" (inside an iteration), "ended"
    stopper,            \* the thread in stop(): where it is, the symbols it
                        \* has yet to close and those it closed
    start_op,           \* the start() call and what it returned (None: not called)
    \* the last strike and expiry calculation
    chain_call,
    \* a fill application in progress (None: none), and what the status
    \* reader saw last
    fill,
    snapshot

ledgerVars == <<positions, orders, cash_balance, initial_capital, total_value,
                paper_trading, realized_pnl, order_counter, pending_orders,
                trades_history, equity_curve>>
callVars == <<call, ret, last_order, net_since_empty, tick_calls>>
botVars == <<running, bot_positions, last_sl_hit_time, highest_profit,
             trailing_sl_active, current_sl_level>>
envVars == <<pause_file, emergency_file, control_op, now, ticks>>
obsVars == <<tick_pnl, matched, tick_branch, tick_events>>
threadVars == <<loop_pc, stopper, start_op>>
sideVars == <<threadVars, chain_call, fill, snapshot>>
vars == <<ledgerVars, callVars, botVars, envVars, obsVars, sideVars>>

(***************************************************************************)
(* Python dicts as functions.                                              *)
(***************************************************************************)
EmptyDict == <<>>
DictSet(d, k, v) == [x \in DOMAIN d \cup {k} |-> IF x = k THEN v ELSE d[x]]
DictDel(d, k) == [x \in DOMAIN d \ {k} |-> d[x]]

(***************************************************************************)
(* PortfolioManager: the part of its state place_order works on.           *)
(***************************************************************************)
Ledger == [positions |-> positions, orders |-> orders,
           cash_balance |-> cash_balance, realized_pnl |-> realized_pnl,
           order_counter |-> order_counter, pending_orders |-> pending_orders,
           trades_history |-> trades_history]

\* the record _update_position_from_order inserts for a symbol without one
NewPosition(symbol, price, fill_time) ==
    [symbol |-> symbol, quantity |-> 0, entry_price |-> Zero,
     current_price |-> price, side |-> NoneStr, entry_time |-> fill_time,
     pnl |-> Zero, unrealized_pnl |-> Zero]

\* total_value / total_quantity if total_quantity > 0 else price
WeightedEntryBad(held, entry_price, quantity, price) ==
    RDiv(RAdd(entry_price, price), R(2))

WeightedEntry(held, entry_price, quantity, price) ==
    LET total_val == RAdd(RMul(R(held), entry_price), RMul(R(quantity), price))
        total_quantity == held + quantity
    IN  IF total_quantity > 0 THEN RDiv(total_val, R(total_quantity)) ELSE price

\* BUY on a position with quantity >= 0
AddLong(position, quantity, price) ==
    [position |-> [position EXCEPT
                      !.entry_price = WeightedEntry(position.quantity,
                                          position.entry_price, quantity, price),
                      !.quantity = position.quantity + quantity,
                      !.side = "LONG"],
     realized |-> Zero,
     closed |-> FALSE]

\* quantity * (entry_price - price)
CoverPnlBad(quantity, entry_price, price) ==
    RMul(R(quantity), RSub(price, entry_price))

CoverPnl(quantity, entry_price, price) ==
    RMul(R(quantity), RSub(entry_price, price))

\* quantity * (price - entry_price)
SalePnlBad(quantity, entry_price, price) ==
    RMul(R(quantity), price)

SalePnl(quantity, entry_price, price) ==
    RMul(R(quantity), RSub(price, entry_price))

\* BUY on a short position with abs(quantity) >= the bought quantity
CoverShortBad(position, quantity, price) ==
    [position |-> [position EXCEPT !.quantity = position.quantity + quantity],
     realized |-> CoverPnl(quantity, position.entry_price, price),
     closed |-> FALSE]

CoverShort(position, quantity, price) ==
    [position |-> [position EXCEPT !.quantity = position.quantity + quantity],
     realized |-> CoverPnl(quantity, position.entry_price, price),
     closed |-> position.quantity + quantity = 0]

\* BUY on a short position with abs(quantity) < the bought quantity
CoverAndGoLongBad(position, quantity, price) ==
    LET cover_quantity == Abs(position.quantity)
        long_quantity == quantity - cover_quantity
    IN  [position |-> [position EXCEPT !.quantity = long_quantity,
                                       !.side = "LONG"],
         realized |-> CoverPnl(cover_quantity, position.entry_price, price),
         closed |-> FALSE]

CoverAndGoLong(position, quantity, price) ==
    LET cover_quantity == Abs(position.quantity)
        long_quantity == quantity - cover_quantity
    IN  [position |-> [position EXCEPT !.quantity = long_quantity,
                                       !.entry_price = price,
                                       !.side = "LONG"],
         realized |-> CoverPnl(cover_quantity, position.entry_price, price),
         closed |-> FALSE]

\* SELL on a position with quantity <= 0
AddShort(position, quantity, price) ==
    [position |-> [position EXCEPT
                      !.entry_price = WeightedEntry(Abs(position.quantity),
                                          position.entry_price, quantity, price),
                      !.quantity = -(Abs(position.quantity) + quantity),
                      !.side = "SHORT"],
     realized |-> Zero,
     closed |-> FALSE]

\* SELL on a long position with quantity >= the sold quantity
SellLong(position, quantity, price) ==
    [position |-> [position EXCEPT !.quantity = position.quantity - quantity],
     realized |-> SalePnl(quantity, position.entry_price, price),
     closed |-> position.quantity - quantity = 0]

\* SELL on a long position with quantity < the sold quantity
SellAndGoShortBad(position, quantity, price) ==
    [position |-> [position EXCEPT !.quantity = -quantity,
                                   !.entry_price = price,
                                   !.side = "SHORT"],
     realized |-> SalePnl(position.quantity, position.entry_price, price),
     closed |-> FALSE]

SellAndGoShort(position, quantity, price) ==
    LET sell_quantity == position.quantity
        short_quantity == quantity - sell_quantity
    IN  [position |-> [position EXCEPT !.quantity = -short_quantity,
                                       !.entry_price = price,
                                       !.side = "SHORT"],
         realized |-> SalePnl(sell_quantity, position.entry_price, price),
         closed |-> FALSE]

\* _update_position_from_order: the ledger after the fill of a FILLED order
UpdatePositionFromOrder(L, order) ==
    LET symbol == order.symbol
        action == order.action
        quantity == order.filled_quantity
        price == order.avg_fill_price
        positions0 == IF symbol \in DOMAIN L.positions
                        THEN L.positions
                        ELSE DictSet(L.positions, symbol,
                                     NewPosition(symbol, price, order.fill_time))
        position == positions0[symbol]
        res == IF action = "BUY"
                 THEN IF position.quantity >= 0
                        THEN AddLong(position, quantity, price)
                        ELSE IF Abs(position.quantity) >= quantity
                               THEN CoverShort(position, quantity, price)
                               ELSE CoverAndGoLong(position, quantity, price)
                 ELSE IF position.quantity <= 0
                        THEN AddShort(position, quantity, price)
                        ELSE IF position.quantity >= quantity
                               THEN SellLong(position, quantity, price)
                               ELSE SellAndGoShort(position, quantity, price)
        positions1 == IF res.closed
                        THEN DictDel(positions0, symbol)
                        ELSE DictSet(positions0, symbol, res.position)
        positions2 == IF symbol \in DOMAIN positions1
                        THEN [positions1 EXCEPT ![symbol].current_price = price]
                        ELSE positions1
        order_value == RMul(R(quantity), price)
    IN  [L EXCEPT !.positions = positions2,
                  !.cash_balance = IF action = "BUY"
                                     THEN RSub(L.cash_balance, order_value)
                                     ELSE RAdd(L.cash_balance, order_value),
                  !.realized_pnl = RAdd(L.realized_pnl, res.realized)]

\* place_order's parameter check: it returns None unless this holds
ValidParameters(quantity, price, order_type) ==
    ~(quantity <= 0 \/ RLe(price, Zero))

\* f"ORD_{datetime.now().strftime('%Y%m%d_%H%M%S')}_{self.order_counter:04d}"
OrderId(t, counter) == "ORD_" \o ToString(t) \o "_" \o ToString(counter)

\* the order dict place_order builds
NewOrder(order_id, symbol, action, quantity, price, order_type, timestamp) ==
    [order_id |-> order_id, symbol |-> symbol, action |-> action,
     quantity |-> quantity, price |-> price, order_type |-> order_type,
     status |-> "PENDING", timestamp |-> timestamp, filled_quantity |-> 0,
     remaining_quantity |-> quantity, avg_fill_price |-> Zero,
     fill_time |-> NoTime, reject_reason |-> NoneStr]

\* the ledger without a funds check
InsufficientFundsNever(L, order) == FALSE

\* the funds check of _execute_paper_order
InsufficientFunds(L, order) ==
    /\ order.action = "BUY"
    /\ RGt(RMul(R(order.quantity), order.price), L.cash_balance)

\* _execute_paper_order: [L: the ledger after, ret: the value returned,
\* order: the order dict after]
ExecutePaperOrder(L, order, t) ==
    IF InsufficientFunds(L, order)
      THEN [L |-> L,
            ret |-> order.order_id,
            order |-> [order EXCEPT !.status = "REJECTED",
                                    !.reject_reason = "Insufficient funds"]]
      ELSE LET filled == [order EXCEPT !.status = "FILLED",
                                       !.filled_quantity = order.quantity,
                                       !.remaining_quantity = 0,
                                       !.avg_fill_price = order.price,
                                       !.fill_time = t]
           IN  CHOOSE result \in
                 {[L |-> [L1 EXCEPT
                            !.orders = DictSet(L1.orders, order.order_id, filled.status),
                            !.trades_history = Append(L1.trades_history, order.order_id)],
                   ret |-> order.order_id,
                   order |-> filled] :
                  L1 \in {UpdatePositionFromOrder(L, filled)}} : TRUE

\* _place_live_order, given what make_authenticated_request returns
PlaceLiveOrderBad(L, order, response) ==
    IF response # NoneStr /\ response = "Ok"
      THEN [L |-> [UpdatePositionFromOrder(L,
                       [order EXCEPT !.filled_quantity = order.quantity,
                                     !.avg_fill_price = order.price])
                   EXCEPT !.pending_orders =
                               DictSet(L.pending_orders, order.order_id, "PLACED")],
            ret |-> order.order_id,
            order |-> [order EXCEPT !.status = "PLACED"]]
      ELSE [L |-> L,
            ret |-> order.order_id,
            order |-> [order EXCEPT !.status = "REJECTED",
                                    !.reject_reason = "API call failed"]]

PlaceLiveOrder(L, order, response) ==
    IF response # NoneStr /\ response = "Ok"
      THEN [L |-> [L EXCEPT !.pending_orders =
                               DictSet(L.pending_orders, order.order_id, "PLACED")],
            ret |-> order.order_id,
            order |-> [order EXCEPT !.status = "PLACED"]]
      ELSE [L |-> L,
            ret |-> order.order_id,
            order |-> [order EXCEPT !.status = "REJECTED",
                                    !.reject_reason = "API call failed"]]

\* place_order: [L, ret, order]; order is None when no order dict was built
PlaceOrder(L, symbol, action, quantity, price, order_type, response, t) ==
    IF ~ValidParameters(quantity, price, order_type)
      THEN [L |-> L, ret |-> NoneStr, order |-> None]
      ELSE LET L1 == [L EXCEPT !.order_counter = L.order_counter + 1]
               order == NewOrder(OrderId(t, L1.order_counter), symbol, action,
                                 quantity, price, order_type, t)
           IN  IF paper_trading
                 THEN ExecutePaperOrder(L1, order, t)
                 ELSE PlaceLiveOrder(L1, order, response)

(***************************************************************************)
(* What is recorded of each place_order call.                              *)
(***************************************************************************)
DictGet(d, k, default) == IF k \in DOMAIN d THEN d[k] ELSE default

SignedDelta(action, quantity) == IF action = "BUY" THEN quantity ELSE -quantity

\* X = [L, net, call, ret, order, ids]: the ledger, the fill sums, the last
\* call and the order ids returned so far, threaded through a place_order call
Place(X, symbol, action, quantity, price, order_type, response, t) ==
    LET before == IF symbol \in DOMAIN X.L.positions
                    THEN DictGet(X.net, symbol, 0) ELSE 0
    IN  CHOOSE result \in
          {[L |-> r.L,
            net |-> IF r.order # None /\ r.order.status = "FILLED"
                      THEN DictSet(X.net, symbol,
                                   before + SignedDelta(action, quantity))
                      ELSE X.net,
            call |-> [symbol |-> symbol, action |-> action, quantity |-> quantity,
                      price |-> price, order_type |-> order_type],
            ret |-> r.ret,
            order |-> r.order,
            ids |-> IF r.ret # NoneStr THEN Append(X.ids, r.ret) ELSE X.ids,
            calls |-> Append(X.calls,
                             [symbol |-> symbol, action |-> action,
                              quantity |-> quantity, price |-> price,
                              order_type |-> order_type, ret |-> r.ret,
                              status |-> IF r.order = None THEN NoneStr
                                         ELSE r.order.status])] :
           r \in {PlaceOrder(X.L, symbol, action, quantity, price, order_type,
                             response, t)}} : TRUE

Current == [L |-> Ledger, net |-> net_since_empty, call |-> call, ret |-> ret,
            order |-> last_order, ids |-> <<>>, calls |-> <<>>]

\* the variables take the values of X
Becomes(X) ==
    /\ positions' = X.L.positions
    /\ orders' = X.L.orders
    /\ cash_balance' = X.L.cash_balance
    /\ realized_pnl' = X.L.realized_pnl
    /\ order_counter' = X.L.order_counter
    /\ pending_orders' = X.L.pending_orders
    /\ trades_history' = X.L.trades_history
    /\ net_since_empty' = X.net
    /\ call' = X.call
    /\ ret' = X.ret
    /\ last_order' = X.order
    /\ tick_calls' = X.calls

(***************************************************************************)
(* Program constants.                                                      *)
(***************************************************************************)
DefaultCapital == 100000
lot_size == 65
profit_threshold == 300
trailing_buffer == 50
re_entry_delay == 5

(***************************************************************************)
(* The state after construction.                                           *)
(***************************************************************************)
\* PortfolioManager.__init__
InitPortfolio ==
    /\ positions = EmptyDict
    /\ orders = EmptyDict
    /\ cash_balance = Zero
    /\ initial_capital = R(DefaultCapital)
    /\ total_value = R(DefaultCapital)
    /\ paper_trading \in BOOLEAN
    /\ realized_pnl = Zero
    /\ order_counter = 0
    /\ pending_orders = EmptyDict
    /\ trades_history = <<>>
    /\ equity_curve = <<>>
    /\ call = None
    /\ ret = NoneStr
    /\ last_order = None
    /\ net_since_empty = EmptyDict
    /\ tick_calls = <<>>

\* OptionsStrategyBot.__init__
InitBot ==
    /\ running = FALSE
    /\ bot_positions = EmptyDict
    /\ last_sl_hit_time = NoTime
    /\ highest_profit = Zero
    /\ trailing_sl_active = FALSE
    /\ current_sl_level = Zero
    /\ tick_pnl = None
    /\ matched = 0
    /\ tick_branch = NoneStr
    /\ tick_events = {}

\* no control file exists and no control operation has run
InitControls ==
    /\ pause_file = FALSE
    /\ emergency_file = FALSE
    /\ control_op = None

\* stop() has not been called
Idle == [pc |-> "idle", todo |-> {}, closed |-> {}]

\* start() has not been called: there is no trading thread
NotStarted ==
    /\ loop_pc = "none"
    /\ stopper = Idle
    /\ start_op = None

\* start() returned True: the trading thread is at its while
Started ==
    /\ loop_pc = "top"
    /\ stopper = Idle
    /\ start_op = [login |-> TRUE, feed |-> TRUE, ret |-> TRUE]

\* nothing was calculated, no fill is being applied, nothing was read
InitSide ==
    /\ chain_call = None
    /\ fill = None
    /\ snapshot = None

\* Wednesday 09:20
StartOfDay == 2 * 1440 + 9 * 60 + 20

Init ==
    /\ InitPortfolio
    /\ InitBot
    /\ InitControls
    /\ NotStarted
    /\ InitSide
    /\ now = StartOfDay
    /\ ticks = 0

(***************************************************************************)
(* The ledger's operations, called by a client of PortfolioManager.        *)
(***************************************************************************)
\* initialize(), called at start-up by an authenticated client.  In live
\* mode the PositionBook response carries no 'positions' and the Limits
\* response is one of LimitsResponses.
Initialize ==
    /\ order_counter = 0
    /\ equity_curve = <<>>
    /\ \E capital \in ConfiguredCapitals, limits \in LimitsResponses :
         LET live == ~paper_trading /\ limits # None
             cash == IF live THEN limits.cash ELSE capital
             value == IF live THEN RAdd(limits.cash, limits.marginused) ELSE capital
         IN  /\ initial_capital' = capital
             /\ cash_balance' = cash
             /\ total_value' = value
             /\ equity_curve' = Append(equity_curve, [value |-> value, pnl |-> Zero])
    /\ UNCHANGED <<positions, orders, paper_trading, realized_pnl, order_counter,
                   pending_orders, trades_history>>
    /\ UNCHANGED <<callVars, botVars, envVars, obsVars, sideVars>>

\* place_order(symbol, action, quantity, price, order_type)
PlaceOrderCall ==
    /\ order_counter < MaxOrders
    /\ \E symbol \in OrderSymbols, action \in OrderActions,
          quantity \in OrderQuantities, price \in OrderPrices,
          order_type \in OrderTypes,
          response \in IF paper_trading THEN {NoneStr} ELSE BrokerResponses :
         \E X \in {Place(Current, symbol, action, quantity, price, order_type,
                         response, now)} : Becomes(X)
    /\ UNCHANGED <<initial_capital, total_value, paper_trading, equity_curve>>
    /\ UNCHANGED <<botVars, envVars, obsVars, sideVars>>

Next ==
    \/ Initialize
    \/ PlaceOrderCall

Spec == Init /\ [][Next]_vars

(***************************************************************************)
(* OptionsStrategyBot: the strategy engine.                                *)
(***************************************************************************)
start_time_hour == 9
start_time_minute == 20
expiry_exit_hour == 14
expiry_exit_minute == 0

\* datetime.weekday() (Monday is 0) and the minute of the day of a time
Weekday(t) == (t \div 1440) % 7
MinuteOfDay(t) == t % 1440
DayOf(t) == t \div 1440

\* the window without its end
IsTradingTimeNoEnd(current_time) ==
    start_time_hour * 60 + start_time_minute <= MinuteOfDay(current_time)

\* _is_trading_time
IsTradingTime(current_time) ==
    /\ start_time_hour * 60 + start_time_minute <= MinuteOfDay(current_time)
    /\ MinuteOfDay(current_time) <= 15 * 60 + 30

\* _should_force_exit
ShouldForceExitLate(current_time) ==
    IF Weekday(current_time) # 3
      THEN FALSE
      ELSE MinuteOfDay(current_time) > expiry_exit_hour * 60 + expiry_exit_minute

ShouldForceExitBad(current_time) ==
    MinuteOfDay(current_time) >= expiry_exit_hour * 60 + expiry_exit_minute

ShouldForceExit(current_time) ==
    IF Weekday(current_time) # 3
      THEN FALSE
      ELSE MinuteOfDay(current_time) >= expiry_exit_hour * 60 + expiry_exit_minute

\* Python's round() of a rational: to the nearest integer, halves to even
PyRoundDown(r) == r.n \div r.d

PyRound(r) ==
    LET fl == r.n \div r.d
        twice == 2 * (r.n - fl * r.d)
    IN  IF twice < r.d THEN fl
        ELSE IF twice > r.d THEN fl + 1
        ELSE IF fl % 2 = 0 THEN fl ELSE fl + 1

\* _calculate_option_strikes
CalculateOptionStrikes(nifty_ltp) ==
    LET atm_strike == PyRound(RDiv(nifty_ltp, R(50))) * 50
    IN  [sell_ce |-> atm_strike + 150, buy_ce |-> atm_strike + 250,
         sell_pe |-> atm_strike - 150, buy_pe |-> atm_strike - 250]

\* _get_option_symbols, at time current_date
GetOptionSymbolsBad(strikes, current_date) ==
    LET days_until_thursday == (3 - Weekday(current_date)) % 7
        expiry_date == DayOf(current_date) + days_until_thursday
    IN  [buy_ce |-> OptionSymbol(expiry_date, strikes.buy_ce, "CE"),
         sell_ce |-> OptionSymbol(expiry_date, strikes.sell_ce, "CE"),
         buy_pe |-> OptionSymbol(expiry_date, strikes.buy_pe, "PE"),
         sell_pe |-> OptionSymbol(expiry_date, strikes.sell_pe, "PE")]

GetOptionSymbols(strikes, current_date) ==
    LET d == (3 - Weekday(current_date)) % 7
        days_until_thursday ==
            IF d = 0 /\ MinuteOfDay(current_date) \div 60 >= 15 THEN 7 ELSE d
        expiry_date == DayOf(current_date) + days_until_thursday
    IN  [buy_ce |-> OptionSymbol(expiry_date, strikes.buy_ce, "CE"),
         sell_ce |-> OptionSymbol(expiry_date, strikes.sell_ce, "CE"),
         buy_pe |-> OptionSymbol(expiry_date, strikes.buy_pe, "PE"),
         sell_pe |-> OptionSymbol(expiry_date, strikes.sell_pe, "PE")]

\* the four orders of the strategy, in the order they are placed
StrategyOrders(option_symbols) ==
    << [symbol |-> option_symbols.buy_ce, action |-> "BUY",
        quantity |-> lot_size, product |-> "MIS"],
       [symbol |-> option_symbols.sell_ce, action |-> "SELL",
        quantity |-> lot_size, product |-> "MIS"],
       [symbol |-> option_symbols.buy_pe, action |-> "BUY",
        quantity |-> lot_size, product |-> "MIS"],
       [symbol |-> option_symbols.sell_pe, action |-> "SELL",
        quantity |-> lot_size, product |-> "MIS"] >>

\* the engine's own state
Bot == [positions |-> bot_positions, last_sl_hit_time |-> last_sl_hit_time,
        highest_profit |-> highest_profit,
        trailing_sl_active |-> trailing_sl_active,
        current_sl_level |-> current_sl_level]

\* place_order(symbol, action, quantity, price=0.0, order_type='MARKET') for
\* each of the first k orders, with the action given by side(order)
RECURSIVE PlaceMarketOrders(_, _, _, _, _, _)
PlaceMarketOrders(X, order_list, k, flip, response, t) ==
    IF k = 0 THEN X
    ELSE LET order == order_list[k]
             action == IF flip
                         THEN (IF order.action = "BUY" THEN "SELL" ELSE "BUY")
                         ELSE order.action
         IN  CHOOSE result \in
               {Place(Y, order.symbol, action, order.quantity, Zero, "MARKET",
                      response, t) :
                Y \in {PlaceMarketOrders(X, order_list, k - 1, flip, response, t)}} :
               TRUE

\* _enter_options_strategy: [B, X]
EnterOptionsStrategyBad(B, X, nifty_ltp, response, t) ==
    LET strikes == CalculateOptionStrikes(nifty_ltp)
        option_symbols == GetOptionSymbols(strikes, t)
        order_list == StrategyOrders(option_symbols)
    IN  CHOOSE result \in
          {IF Len(X1.ids) <= 4
             THEN [B |-> [B EXCEPT !.positions =
                                      [entry_time |-> t, orders |-> order_list,
                                       order_ids |-> X1.ids,
                                       entry_nifty |-> nifty_ltp],
                                   !.highest_profit = Zero,
                                   !.trailing_sl_active = FALSE,
                                   !.current_sl_level = Zero],
                   X |-> X1]
             ELSE [B |-> B, X |-> X1] :
           X1 \in {PlaceMarketOrders([X EXCEPT !.ids = <<>>], order_list, 4,
                                     FALSE, response, t)}} : TRUE

EnterOptionsStrategy(B, X, nifty_ltp, response, t) ==
    LET strikes == CalculateOptionStrikes(nifty_ltp)
        option_symbols == GetOptionSymbols(strikes, t)
        order_list == StrategyOrders(option_symbols)
    IN  CHOOSE result \in
          {IF Len(X1.ids) = 4
             THEN [B |-> [B EXCEPT !.positions =
                                      [entry_time |-> t, orders |-> order_list,
                                       order_ids |-> X1.ids,
                                       entry_nifty |-> nifty_ltp],
                                   !.highest_profit = Zero,
                                   !.trailing_sl_active = FALSE,
                                   !.current_sl_level = Zero],
                   X |-> X1]
             ELSE [B |-> B, X |-> X1] :
           X1 \in {PlaceMarketOrders([X EXCEPT !.ids = <<>>], order_list, 4,
                                     FALSE, response, t)}} : TRUE

\* the close that leaves the trailing state as it was
CloseAllStrategyPositionsBad(B, X, response, t) ==
    LET order_list == IF "orders" \in DOMAIN B.positions
                        THEN B.positions.orders ELSE <<>>
        X1 == PlaceMarketOrders(X, order_list, Len(order_list), TRUE, response, t)
    IN  [B |-> [B EXCEPT !.positions = EmptyDict], X |-> X1]

\* _close_all_strategy_positions: [B, X]
CloseAllStrategyPositions(B, X, response, t) ==
    LET order_list == IF "orders" \in DOMAIN B.positions
                        THEN B.positions.orders ELSE <<>>
        X1 == PlaceMarketOrders(X, order_list, Len(order_list), TRUE, response, t)
    IN  [B |-> [B EXCEPT !.positions = EmptyDict,
                         !.highest_profit = Zero,
                         !.trailing_sl_active = FALSE,
                         !.current_sl_level = Zero],
         X |-> X1]

\* _force_exit_all_positions
ForceExitAllPositionsBad(B, X, response, t) ==
    IF B.positions # EmptyDict
      THEN LET c == CloseAllStrategyPositions(B, X, response, t)
           IN  [B |-> [c.B EXCEPT !.last_sl_hit_time = t], X |-> c.X]
      ELSE [B |-> B, X |-> X]

ForceExitAllPositions(B, X, response, t) ==
    IF B.positions # EmptyDict
      THEN CloseAllStrategyPositions(B, X, response, t)
      ELSE [B |-> B, X |-> X]

\* the P&L _calculate_strategy_pnl adds for one order, given the quote of its
\* symbol (None: no market data) and the ledger's positions
LegPnl(order, quote, P) ==
    IF quote = None THEN Zero
    ELSE IF order.symbol \notin DOMAIN P THEN Zero
    ELSE LET position_info == P[order.symbol]
             entry_price == IF "avg_price" \in DOMAIN position_info
                              THEN position_info.avg_price ELSE Zero
         IN  IF order.action = "BUY"
               THEN RMul(RSub(quote, entry_price), R(order.quantity))
               ELSE RMul(RSub(entry_price, quote), R(order.quantity))

\* _calculate_strategy_pnl, given the quotes of the market data feed
RECURSIVE SumLegPnl(_, _, _, _)
SumLegPnl(order_list, k, quotes, P) ==
    IF k = 0 THEN Zero
    ELSE RAdd(SumLegPnl(order_list, k - 1, quotes, P),
              LegPnl(order_list[k], quotes[order_list[k].symbol], P))

\* the total with the raising feed taken for a feed without data
CalculateStrategyPnlBad(B, L, quotes) ==
    LET order_list == IF "orders" \in DOMAIN B.positions
                        THEN B.positions.orders ELSE <<>>
        seen == [s \in DOMAIN quotes |->
                    IF quotes[s] = FeedError THEN None ELSE quotes[s]]
    IN  SumLegPnl(order_list, Len(order_list), seen, L.positions)

\* None when get_symbol_data raised for a leg (the except branch)
CalculateStrategyPnl(B, L, quotes) ==
    LET order_list == IF "orders" \in DOMAIN B.positions
                        THEN B.positions.orders ELSE <<>>
    IN  IF \E k \in 1..Len(order_list) : quotes[order_list[k].symbol] = FeedError
          THEN None
          ELSE SumLegPnl(order_list, Len(order_list), quotes, L.positions)

\* what the loop over the legs met up to leg k: "feed_error" if
\* get_symbol_data raised (no leg after it is looked at), "leg_skipped" if a
\* leg was passed over with continue
RECURSIVE LegEvents(_, _, _, _)
LegEvents(order_list, k, quotes, P) ==
    IF k = 0 THEN {}
    ELSE LET before == LegEvents(order_list, k - 1, quotes, P)
             quote == quotes[order_list[k].symbol]
         IN  IF "feed_error" \in before THEN before
             ELSE IF quote = FeedError THEN before \cup {"feed_error"}
             ELSE IF quote = None \/ order_list[k].symbol \notin DOMAIN P
               THEN before \cup {"leg_skipped"}
               ELSE before

\* if current_pnl > self.highest_profit: self.highest_profit = current_pnl
UpdateHighest(highest, current_pnl) ==
    IF RGt(current_pnl, highest) THEN current_pnl ELSE highest

\* not self.trailing_sl_active and current_pnl >= self.profit_threshold
ShouldActivateBad(active, current_pnl) ==
    ~active /\ RGt(current_pnl, R(profit_threshold))

ShouldActivate(active, current_pnl) ==
    ~active /\ RGe(current_pnl, R(profit_threshold))

\* the stop level after "Update trailing SL if active"
TrailStopBad(sl_level, highest) ==
    LET new_sl_level == RSub(highest, R(trailing_buffer))
    IN  IF RLt(new_sl_level, sl_level) THEN new_sl_level ELSE sl_level

TrailStop(sl_level, highest) ==
    LET new_sl_level == RSub(highest, R(trailing_buffer))
    IN  IF RGt(new_sl_level, sl_level) THEN new_sl_level ELSE sl_level

\* current_pnl <= self.current_sl_level
SlHitBad(current_pnl, sl_level) == RLt(current_pnl, sl_level)

SlHit(current_pnl, sl_level) == RLe(current_pnl, sl_level)

\* _monitor_existing_positions: [B, X, pnl]; pnl is None when no P&L was
\* computed
MonitorExistingPositions(B, X, quotes, response, t) ==
    IF B.positions = EmptyDict
      THEN [B |-> B, X |-> X, pnl |-> None]
      ELSE CHOOSE result \in
             {IF current_pnl = None THEN [B |-> B, X |-> X, pnl |-> None] ELSE
              LET highest == UpdateHighest(B.highest_profit, current_pnl)
                  activate == ShouldActivate(B.trailing_sl_active, current_pnl)
                  active == B.trailing_sl_active \/ activate
                  sl0 == IF activate
                           THEN RSub(current_pnl, R(trailing_buffer))
                           ELSE B.current_sl_level
                  sl1 == IF active THEN TrailStop(sl0, highest) ELSE sl0
                  B1 == [B EXCEPT !.highest_profit = highest,
                                  !.trailing_sl_active = active,
                                  !.current_sl_level = sl1]
              IN  IF active /\ SlHit(current_pnl, sl1)
                    THEN LET c == CloseAllStrategyPositions(B1, X, response, t)
                         IN  [B |-> [c.B EXCEPT !.last_sl_hit_time = t],
                              X |-> c.X, pnl |-> current_pnl]
                    ELSE [B |-> B1, X |-> X, pnl |-> current_pnl] :
              current_pnl \in {CalculateStrategyPnl(B, X.L, quotes)}} : TRUE

\* _should_enter_new_position
ShouldEnterNewPositionNoDelay(B, current_time) ==
    IF B.positions # EmptyDict THEN FALSE ELSE TRUE

ShouldEnterNewPositionBad(B, current_time) ==
    IF B.positions # EmptyDict THEN FALSE
    ELSE IF B.last_sl_hit_time # NoTime
            /\ current_time - B.last_sl_hit_time <= re_entry_delay
      THEN FALSE
      ELSE TRUE

ShouldEnterNewPosition(B, current_time) ==
    IF B.positions # EmptyDict THEN FALSE
    ELSE IF B.last_sl_hit_time # NoTime
            /\ current_time - B.last_sl_hit_time < re_entry_delay
      THEN FALSE
      ELSE TRUE

\* the iteration with the index price looked at before the forced exit
LoopIterationBad(B, X, paused, nifty, quotes, response, t) ==
    IF paused
      THEN [B |-> B, X |-> X, pnl |-> None, branch |-> "paused"]
    ELSE IF ~IsTradingTime(t)
      THEN [B |-> B, X |-> X, pnl |-> None, branch |-> "outside_hours"]
    ELSE IF nifty = None \/ nifty = Zero
      THEN [B |-> B, X |-> X, pnl |-> None, branch |-> "no_ltp"]
    ELSE IF ShouldForceExit(t)
      THEN LET f == ForceExitAllPositions(B, X, response, t)
           IN  [B |-> f.B, X |-> f.X, pnl |-> None, branch |-> "force_exit"]
    ELSE CHOOSE result \in
           {IF ShouldEnterNewPosition(m.B, t)
              THEN LET e == EnterOptionsStrategy(m.B, m.X, nifty, response, t)
                   IN  [B |-> e.B, X |-> e.X, pnl |-> m.pnl, branch |-> "enter"]
              ELSE [B |-> m.B, X |-> m.X, pnl |-> m.pnl, branch |-> "monitor"] :
            m \in {MonitorExistingPositions(B, X, quotes, response, t)}} : TRUE

\* the iteration with the positions monitored before the index price is
\* looked at
LoopIterationMonitorFirst(B, X, paused, nifty, quotes, response, t) ==
    IF paused
      THEN [B |-> B, X |-> X, pnl |-> None, branch |-> "paused"]
    ELSE IF ~IsTradingTime(t)
      THEN [B |-> B, X |-> X, pnl |-> None, branch |-> "outside_hours"]
    ELSE IF ShouldForceExit(t)
      THEN LET f == ForceExitAllPositions(B, X, response, t)
           IN  [B |-> f.B, X |-> f.X, pnl |-> None, branch |-> "force_exit"]
    ELSE CHOOSE result \in
           {IF nifty = None \/ nifty = Zero
              THEN [B |-> m.B, X |-> m.X, pnl |-> None, branch |-> "no_ltp"]
            ELSE IF ShouldEnterNewPosition(m.B, t)
              THEN LET e == EnterOptionsStrategy(m.B, m.X, nifty, response, t)
                   IN  [B |-> e.B, X |-> e.X, pnl |-> m.pnl, branch |-> "enter"]
              ELSE [B |-> m.B, X |-> m.X, pnl |-> m.pnl, branch |-> "monitor"] :
            m \in {MonitorExistingPositions(B, X, quotes, response, t)}} : TRUE

\* one iteration of _trading_loop at time t: [B, X, pnl, branch].  nifty is
\* what the feed has for "NSE:NIFTY 50" (None: nothing), quotes what it has
\* for the legs; branch names the way the iteration went.
LoopIteration(B, X, paused, nifty, quotes, response, t) ==
    IF paused
      THEN [B |-> B, X |-> X, pnl |-> None, branch |-> "paused"]
    ELSE IF ~IsTradingTime(t)
      THEN [B |-> B, X |-> X, pnl |-> None, branch |-> "outside_hours"]
    ELSE IF ShouldForceExit(t)
      THEN LET f == ForceExitAllPositions(B, X, response, t)
           IN  [B |-> f.B, X |-> f.X, pnl |-> None, branch |-> "force_exit"]
    ELSE IF nifty = None \/ nifty = Zero
      THEN [B |-> B, X |-> X, pnl |-> None, branch |-> "no_ltp"]
    ELSE CHOOSE result \in
           {IF ShouldEnterNewPosition(m.B, t)
              THEN LET e == EnterOptionsStrategy(m.B, m.X, nifty, response, t)
                   IN  [B |-> e.B, X |-> e.X, pnl |-> m.pnl, branch |-> "enter"]
              ELSE [B |-> m.B, X |-> m.X, pnl |-> m.pnl, branch |-> "monitor"] :
            m \in {MonitorExistingPositions(B, X, quotes, response, t)}} : TRUE

(***************************************************************************)
(* The trading loop from the state a completed entry records.              *)
(***************************************************************************)
\* the combined P&L values of the worked example
ExampleSequence == <<R(0), R(320), R(380), R(340), R(290)>>
NoMatch == 0 - 1

NextMatched(m, pnl) ==
    IF pnl = None THEN m
    ELSE IF m >= 0 /\ m < Len(ExampleSequence) /\ pnl = ExampleSequence[m + 1]
      THEN m + 1
      ELSE NoMatch

\* the index price the feed reports
NiftyQuotes == {None, R(0), R(19500)}
\* the premium at which one leg of lot_size units is worth v
Premium(v) == Rat(v, lot_size)
\* the premiums the feed reports for each leg (None: no data for the symbol)
LegQuotes(order) ==
    IF order.action = "BUY" /\ order.symbol[4] = "CE"
      THEN {None} \cup {Premium(v) : v \in {0, 290, 300, 320, 340, 380}}
    ELSE IF order.action = "SELL" /\ order.symbol[4] = "CE"
      THEN {Premium(0), Premium(40)}
    ELSE IF order.action = "BUY"
      THEN {None, Premium(0)}
      ELSE {Premium(0)}

\* the feed's data for the symbols of the held legs
QuoteBoards(order_list) ==
    IF order_list = <<>> THEN {<<>>}
    ELSE {[s \in {order_list[i].symbol : i \in 1..4} |->
             LET i == CHOOSE j \in 1..4 : order_list[j].symbol = s
             IN  IF i = 1 THEN a ELSE IF i = 2 THEN b ELSE IF i = 3 THEN c ELSE d] :
            a \in LegQuotes(order_list[1]), b \in LegQuotes(order_list[2]),
            c \in LegQuotes(order_list[3]), d \in LegQuotes(order_list[4])}

\* the minutes a loop iteration may take
TickMinutes == {0, 1}

\* the entry at index price 19500 on Wednesday 09:20: the four legs as the
\* simulated ledger fills them at a premium of 10, from the default capital
EntryNifty == R(19500)
EntryOrders == StrategyOrders(GetOptionSymbols(CalculateOptionStrikes(EntryNifty),
                                              StartOfDay))
RECURSIVE PlaceLimitOrders(_, _, _, _, _)
PlaceLimitOrders(X, order_list, k, price, t) ==
    IF k = 0 THEN X
    ELSE CHOOSE result \in
           {Place(Y, order_list[k].symbol, order_list[k].action,
                  order_list[k].quantity, price, "LIMIT", NoneStr, t) :
            Y \in {PlaceLimitOrders(X, order_list, k - 1, price, t)}} : TRUE

InitActive ==
    /\ paper_trading = TRUE
    /\ initial_capital = R(DefaultCapital)
    /\ total_value = R(DefaultCapital)
    /\ equity_curve = <<[value |-> R(DefaultCapital), pnl |-> Zero]>>
    /\ LET L0 == [positions |-> EmptyDict, orders |-> EmptyDict,
                  cash_balance |-> R(DefaultCapital), realized_pnl |-> Zero,
                  order_counter |-> 0, pending_orders |-> EmptyDict,
                  trades_history |-> <<>>]
           X0 == [L |-> L0, net |-> EmptyDict, call |-> None, ret |-> NoneStr,
                  order |-> None, ids |-> <<>>, calls |-> <<>>]
       IN  \E X \in {PlaceLimitOrders(X0, EntryOrders, 4, R(10), StartOfDay)} :
           /\ positions = X.L.positions
           /\ orders = X.L.orders
           /\ cash_balance = X.L.cash_balance
           /\ realized_pnl = X.L.realized_pnl
           /\ order_counter = X.L.order_counter
           /\ pending_orders = X.L.pending_orders
           /\ trades_history = X.L.trades_history
           /\ net_since_empty = X.net
           /\ call = X.call
           /\ ret = X.ret
           /\ last_order = X.order
           /\ tick_calls = <<>>
           /\ bot_positions = [entry_time |-> StartOfDay, orders |-> EntryOrders,
                               order_ids |-> X.ids, entry_nifty |-> EntryNifty]
    /\ running = TRUE
    /\ last_sl_hit_time = NoTime
    /\ highest_profit = Zero
    /\ trailing_sl_active = FALSE
    /\ current_sl_level = Zero
    /\ tick_pnl = None
    /\ matched = 0
    /\ tick_branch = NoneStr
    /\ tick_events = {}
    /\ InitControls
    /\ Started
    /\ InitSide
    /\ now = StartOfDay
    /\ ticks = 0

\* the legs the engine holds
HeldOrders == IF "orders" \in DOMAIN bot_positions THEN bot_positions.orders ELSE <<>>

\* _get_nifty_ltp, given the feed's data for "NSE:NIFTY 50"
GetNiftyLtp(market_data) ==
    IF market_data = FeedError THEN None ELSE market_data

\* what an iteration that went the way of branch met in the feed's data
TickEvents(B, L, market_data, quotes, branch) ==
    (IF branch = "no_ltp" /\ market_data = FeedError THEN {"feed_error"} ELSE {})
    \cup (IF branch \in {"monitor", "enter"} /\ B.positions # EmptyDict
            THEN LegEvents(B.positions.orders, Len(B.positions.orders), quotes,
                           L.positions)
            ELSE {})

\* the body of the while loop of _trading_loop, with a feed that reports one
\* of nifties and one of boards, a broker that answers one of responses and
\* an iteration that takes one of minutes
TickBody(nifties, boards, responses, minutes) ==
    /\ ticks < MaxTicks
    /\ \E nifty \in nifties, quotes \in boards, response \in responses :
         \E r \in {LoopIteration(Bot, Current, pause_file, GetNiftyLtp(nifty),
                                 quotes, response, now)} :
             /\ Becomes(r.X)
             /\ bot_positions' = r.B.positions
             /\ last_sl_hit_time' = r.B.last_sl_hit_time
             /\ highest_profit' = r.B.highest_profit
             /\ trailing_sl_active' = r.B.trailing_sl_active
             /\ current_sl_level' = r.B.current_sl_level
             /\ tick_pnl' = r.pnl
             /\ matched' = NextMatched(matched, r.pnl)
             /\ tick_branch' = r.branch
             /\ tick_events' = TickEvents(Bot, Ledger, nifty, quotes, r.branch)
    /\ \E d \in minutes : now' = now + d
    /\ ticks' = ticks + 1
    /\ UNCHANGED <<initial_capital, total_value, paper_trading, equity_curve,
                   running, pause_file, emergency_file, control_op>>

\* one iteration of the loop, taken as a whole, while self.running
TickWith(nifties, boards, responses, minutes) ==
    /\ running
    /\ TickBody(nifties, boards, responses, minutes)
    /\ UNCHANGED sideVars

Tick == TickWith(NiftyQuotes, QuoteBoards(HeldOrders), {NoneStr}, TickMinutes)

NextActive == Tick

SpecActive == InitActive /\ [][NextActive]_vars

(***************************************************************************)
(* TradingControls: the control files, written by an external actor.       *)
(***************************************************************************)
\* pause_trading: [pause_file, ret]
PauseTrading(paused) == [pause_file |-> TRUE, ret |-> TRUE]

\* resume_trading: [pause_file, ret]
ResumeTradingBad(paused) ==
    IF paused
      THEN [pause_file |-> FALSE, ret |-> TRUE]
      ELSE [pause_file |-> paused, ret |-> FALSE]

ResumeTrading(paused) ==
    IF paused
      THEN [pause_file |-> FALSE, ret |-> TRUE]
      ELSE [pause_file |-> paused, ret |-> TRUE]

PauseTradingCall ==
    /\ \E r \in {PauseTrading(pause_file)} :
         /\ pause_file' = r.pause_file
         /\ control_op' = [op |-> "pause", ret |-> r.ret]
    /\ UNCHANGED <<emergency_file, now, ticks>>
    /\ UNCHANGED <<ledgerVars, callVars, botVars, obsVars, sideVars>>

ResumeTradingCall ==
    /\ \E r \in {ResumeTrading(pause_file)} :
         /\ pause_file' = r.pause_file
         /\ control_op' = [op |-> "resume", ret |-> r.ret]
    /\ UNCHANGED <<emergency_file, now, ticks>>
    /\ UNCHANGED <<ledgerVars, callVars, botVars, obsVars, sideVars>>

\* create_emergency_stop: pause_trading(...), then EMERGENCY_STOP.txt
CreateEmergencyStop ==
    /\ pause_file' = PauseTrading(pause_file).pause_file
    /\ emergency_file' = TRUE
    /\ control_op' = [op |-> "emergency_stop", ret |-> TRUE]
    /\ UNCHANGED <<now, ticks>>
    /\ UNCHANGED <<ledgerVars, callVars, botVars, obsVars, sideVars>>

\* remove_emergency_stop: removes both files
RemoveEmergencyStop ==
    /\ pause_file' = FALSE
    /\ emergency_file' = FALSE
    /\ control_op' = [op |-> "remove_emergency", ret |-> TRUE]
    /\ UNCHANGED <<now, ticks>>
    /\ UNCHANGED <<ledgerVars, callVars, botVars, obsVars, sideVars>>

(***************************************************************************)
(* The engine with its environment: the feed, the clock and the control    *)
(* files.                                                                   *)
(***************************************************************************)
\* the state after construction and start(): no strategy position
InitIdle ==
    /\ InitPortfolio
    /\ running = TRUE
    /\ bot_positions = EmptyDict
    /\ last_sl_hit_time = NoTime
    /\ highest_profit = Zero
    /\ trailing_sl_active = FALSE
    /\ current_sl_level = Zero
    /\ tick_pnl = None
    /\ matched = 0
    /\ tick_branch = NoneStr
    /\ tick_events = {}
    /\ InitControls
    /\ Started
    /\ InitSide
    /\ now = StartOfDay
    /\ ticks = 0

InitEngine == InitIdle \/ InitActive

\* the feed's data for the held legs: the bought call is worth 0 or 320, the
\* other legs 0
EngineBoards(order_list) ==
    IF order_list = <<>> THEN {<<>>}
    ELSE {[s \in {order_list[i].symbol : i \in 1..Len(order_list)} |->
             IF s = order_list[1].symbol THEN a ELSE Premium(0)] :
          a \in {Premium(0), Premium(320)}}

EngineTick ==
    TickWith(NiftyQuotes, EngineBoards(HeldOrders),
             IF paper_trading THEN {NoneStr} ELSE BrokerResponses, {0})

\* the minutes of the day and the moments of the week the clock is looked at
\* after a sleep: before the trading window, around the expiry cutoff and
\* after the window, from Wednesday to the Tuesday after
DayMinutes == {9 * 60 + 19, 13 * 60 + 59, 14 * 60, 15 * 60 + 31}
Moments == {d * 1440 + m : d \in 2..8, m \in DayMinutes}

\* while a re-entry delay runs, the clock is also looked at 4 and 5 minutes on
InCooldown ==
    last_sl_hit_time # NoTime /\ now - last_sl_hit_time < re_entry_delay

\* time.sleep(...): time passes between two iterations
Wait ==
    /\ running
    /\ \E t \in Moments \cup (IF InCooldown THEN {now + 4, now + 5} ELSE {}) :
         /\ t > now
         /\ now' = t
    /\ UNCHANGED <<pause_file, emergency_file, control_op, ticks>>
    /\ UNCHANGED <<ledgerVars, callVars, botVars, obsVars, sideVars>>

\* close_position(symbol): the opposite-side order for the full quantity at
\* the position's stored current price
ClosePosition(X, symbol, response, t) ==
    IF symbol \notin DOMAIN X.L.positions THEN X
    ELSE LET position == X.L.positions[symbol]
             quantity == Abs(position.quantity)
             current_price == position.current_price
         IN  Place(X, symbol, IF position.quantity > 0 THEN "SELL" ELSE "BUY",
                   quantity, current_price, "LIMIT", response, t)

\* close_all_positions: close_position for every symbol held
RECURSIVE CloseAllPositions(_, _, _, _)
CloseAllPositions(X, symbols, response, t) ==
    IF symbols = {} THEN X
    ELSE LET symbol == CHOOSE x \in symbols : TRUE
         IN  CHOOSE result \in
               {CloseAllPositions(Y, symbols \ {symbol}, response, t) :
                Y \in {ClosePosition(X, symbol, response, t)}} : TRUE

\* stop(): running = False, then portfolio.close_all_positions()
Stop ==
    /\ running
    /\ running' = FALSE
    /\ \E response \in IF paper_trading THEN {NoneStr} ELSE BrokerResponses :
         \E X \in {CloseAllPositions(Current, DOMAIN positions, response, now)} :
             Becomes(X)
    /\ UNCHANGED <<initial_capital, total_value, paper_trading, equity_curve>>
    /\ UNCHANGED <<bot_positions, last_sl_hit_time, highest_profit,
                   trailing_sl_active, current_sl_level>>
    /\ UNCHANGED <<envVars, obsVars, sideVars>>

NextEngine ==
    \/ EngineTick
    \/ Wait
    \/ Stop
    \/ PauseTradingCall
    \/ ResumeTradingCall
    \/ CreateEmergencyStop
    \/ RemoveEmergencyStop

SpecEngine == InitEngine /\ [][NextEngine]_vars

(***************************************************************************)
(* The threads: start(), the trading thread and stop().  An iteration of   *)
(* the loop is taken in two steps, the test of self.running and the body,  *)
(* and stop() closes the ledger's positions one symbol at a time.          *)
(***************************************************************************)
\* start(), given whether auth.login() and market_data.start() succeed:
\* [ret, started]; started: running was set and the trading thread started
StartBotBad(login_ok, feed_ok) ==
    IF ~login_ok
      THEN [ret |-> FALSE, started |-> FALSE]
      ELSE [ret |-> feed_ok, started |-> TRUE]

StartBot(login_ok, feed_ok) ==
    IF ~login_ok
      THEN [ret |-> FALSE, started |-> FALSE]
    ELSE IF ~feed_ok
      THEN [ret |-> FALSE, started |-> FALSE]
      ELSE [ret |-> TRUE, started |-> TRUE]

Start ==
    /\ start_op = None
    /\ loop_pc = "none"
    /\ \E login_ok \in BOOLEAN, feed_ok \in BOOLEAN :
         \E r \in {StartBot(login_ok, feed_ok)} :
             /\ start_op' = [login |-> login_ok, feed |-> feed_ok, ret |-> r.ret]
             /\ running' = IF r.started THEN TRUE ELSE running
             /\ loop_pc' = IF r.started THEN "top" ELSE loop_pc
    /\ UNCHANGED <<bot_positions, last_sl_hit_time, highest_profit,
                   trailing_sl_active, current_sl_level>>
    /\ UNCHANGED <<ledgerVars, callVars, envVars, obsVars, stopper, chain_call,
                   fill, snapshot>>

\* while self.running
LoopConditionBad(flag) == TRUE

LoopCondition(flag) == flag

\* the trading thread tests self.running: it goes into the body, or leaves
\* the loop
LoopTop ==
    /\ loop_pc = "top"
    /\ IF LoopCondition(running)
         THEN ticks < MaxTicks /\ loop_pc' = "body"
         ELSE loop_pc' = "ended"
    /\ UNCHANGED <<ledgerVars, callVars, botVars, envVars, obsVars, stopper,
                   start_op, chain_call, fill, snapshot>>

\* the feed of a day on which get_symbol_data may raise
FaultyNifties == {None, FeedError, R(19500)}
FaultyBoards(order_list) ==
    IF order_list = <<>> THEN {<<>>}
    ELSE {[s \in {order_list[i].symbol : i \in 1..Len(order_list)} |->
             IF s = order_list[1].symbol THEN a ELSE Premium(0)] :
          a \in {Premium(0), Premium(320), FeedError}}

\* the trading thread runs the body of the loop and is back at the while
LoopBody ==
    /\ loop_pc = "body"
    /\ TickBody(FaultyNifties, FaultyBoards(HeldOrders),
                IF paper_trading THEN {NoneStr} ELSE BrokerResponses, {0})
    /\ loop_pc' = "top"
    /\ UNCHANGED <<stopper, start_op, chain_call, fill, snapshot>>

\* stop() up to close_all_positions: running = False
StopCall ==
    /\ stopper.pc = "idle"
    /\ loop_pc # "none"
    /\ running' = FALSE
    /\ stopper' = [pc |-> IF DOMAIN positions = {} THEN "done" ELSE "closing",
                   todo |-> DOMAIN positions,
                   closed |-> {}]
    /\ UNCHANGED <<bot_positions, last_sl_hit_time, highest_profit,
                   trailing_sl_active, current_sl_level>>
    /\ UNCHANGED <<ledgerVars, callVars, envVars, obsVars, loop_pc, start_op,
                   chain_call, fill, snapshot>>

\* close_all_positions closes the position of one more symbol
StopCloseOne ==
    /\ stopper.pc = "closing"
    /\ \E symbol \in stopper.todo,
          response \in IF paper_trading THEN {NoneStr} ELSE BrokerResponses :
         /\ \E X \in {ClosePosition(Current, symbol, response, now)} : Becomes(X)
         /\ stopper' = [pc |-> IF stopper.todo = {symbol} THEN "done" ELSE "closing",
                        todo |-> stopper.todo \ {symbol},
                        closed |-> stopper.closed \cup {symbol}]
    /\ UNCHANGED <<initial_capital, total_value, paper_trading, equity_curve>>
    /\ UNCHANGED <<botVars, envVars, obsVars, loop_pc, start_op, chain_call,
                   fill, snapshot>>

InitShutdown == Init \/ InitActive

NextShutdown ==
    \/ Start
    \/ LoopTop
    \/ LoopBody
    \/ StopCall
    \/ StopCloseOne

SpecShutdown == InitShutdown /\ [][NextShutdown]_vars

\* the scheduler lets the trading thread run
SpecShutdownFair ==
    InitShutdown /\ [][NextShutdown]_vars /\ WF_vars(LoopTop) /\ WF_vars(LoopBody)

(***************************************************************************)
(* OptionsChain (src/options_chain.py) and the engine's own strike and     *)
(* expiry calculation, applied to index prices and times of the week.      *)
(***************************************************************************)
\* f'ce_{level}otm' and f'pe_{level}otm'
CeKey(level) == "ce_" \o ToString(level) \o "otm"
PeKey(level) == "pe_" \o ToString(level) \o "otm"

\* OptionsChain.calculate_option_strikes: the dict of strikes
calculate_option_strikes(nifty_price, otm_levels) ==
    LET atm_strike == PyRound(RDiv(nifty_price, R(50))) * 50
        keys == {"atm"} \cup {CeKey(level) : level \in otm_levels}
                        \cup {PeKey(level) : level \in otm_levels}
    IN  [key \in keys |->
            IF key = "atm" THEN atm_strike
            ELSE LET level == CHOOSE l \in otm_levels :
                                  key = CeKey(l) \/ key = PeKey(l)
                 IN  IF key = CeKey(level)
                       THEN atm_strike + (level * 50)
                       ELSE atm_strike - (level * 50)]

\* OptionsChain.get_current_weekly_expiry at time current_date: the day of
\* the expiry
get_current_weekly_expiry(current_date) ==
    LET d == (3 - Weekday(current_date)) % 7
        days_until_thursday ==
            IF d = 0 /\ MinuteOfDay(current_date) \div 60 >= 15 THEN 7 ELSE d
    IN  DayOf(current_date) + days_until_thursday

\* the index prices, the OTM levels and the times the calculations are
\* applied to
ChainPrices ==
    {R(1), R(24), R(25), R(26), R(75), R(19450), R(19474), Rat(38949, 2),
     R(19475), Rat(1947501, 100), R(19499), R(19500), R(19501), R(19524),
     R(19525), Rat(39051, 2), R(19549), R(19550), R(19575)}
ChainLevels == {{3, 5}, {1, 2}}
ChainMoments ==
    {d * 1440 + m : d \in 0..6,
                    m \in {0, 9 * 60 + 20, 14 * 60 + 59, 15 * 60, 23 * 60 + 59}}

\* the state after construction, at any of the times
InitChain ==
    /\ InitPortfolio
    /\ InitBot
    /\ InitControls
    /\ NotStarted
    /\ InitSide
    /\ now \in ChainMoments
    /\ ticks = 0

\* both calculations for an index price: OptionsChain's strikes and expiry,
\* and the four legs of the engine
CalculateCall ==
    /\ \E nifty_price \in ChainPrices, otm_levels \in ChainLevels :
         chain_call' =
             [nifty_price |-> nifty_price,
              otm_levels |-> otm_levels,
              strikes |-> calculate_option_strikes(nifty_price, otm_levels),
              expiry |-> get_current_weekly_expiry(now),
              legs |-> StrategyOrders(GetOptionSymbols(
                           CalculateOptionStrikes(nifty_price), now))]
    /\ UNCHANGED <<ledgerVars, callVars, botVars, envVars, obsVars, threadVars,
                   fill, snapshot>>

NextChain == CalculateCall

SpecChain == InitChain /\ [][NextChain]_vars

(***************************************************************************)
(* The ledger with a status reader in another thread: a fill is applied    *)
(* one writing statement of _update_position_from_order at a time, and the *)
(* reader may read between any two of them.                                *)
(***************************************************************************)
\* the writing statements of _update_position_from_order for an order on a
\* position, in the order of the source
FillStatements(position, action, quantity) ==
    <<"insert">>
    \o (IF action = "BUY"
          THEN IF position.quantity >= 0
                 THEN <<"entry_price", "quantity", "side", "cash">>
               ELSE IF Abs(position.quantity) >= quantity
                 THEN <<"quantity", "cash", "realized", "del">>
                 ELSE <<"realized", "quantity", "entry_price", "side", "cash">>
          ELSE IF position.quantity <= 0
                 THEN <<"entry_price", "quantity", "side", "cash">>
               ELSE IF position.quantity >= quantity
                 THEN <<"quantity", "cash", "realized", "del">>
                 ELSE <<"realized", "quantity", "entry_price", "side", "cash">>)
    \o <<"current_price">>

\* the position the fill of order works on, and what its branch makes of it
FillResult(L, order) ==
    LET position == IF order.symbol \in DOMAIN L.positions
                      THEN L.positions[order.symbol]
                      ELSE NewPosition(order.symbol, order.avg_fill_price,
                                       order.fill_time)
        quantity == order.filled_quantity
        price == order.avg_fill_price
    IN  IF order.action = "BUY"
          THEN IF position.quantity >= 0
                 THEN AddLong(position, quantity, price)
               ELSE IF Abs(position.quantity) >= quantity
                 THEN CoverShort(position, quantity, price)
                 ELSE CoverAndGoLong(position, quantity, price)
          ELSE IF position.quantity <= 0
                 THEN AddShort(position, quantity, price)
               ELSE IF position.quantity >= quantity
                 THEN SellLong(position, quantity, price)
                 ELSE SellAndGoShort(position, quantity, price)

\* the ledger after one writing statement of the fill of order
ApplyStatement(L, order, res, statement) ==
    LET symbol == order.symbol
        order_value == RMul(R(order.filled_quantity), order.avg_fill_price)
    IN  IF statement = "insert"
          THEN IF symbol \in DOMAIN L.positions THEN L
               ELSE [L EXCEPT !.positions =
                        DictSet(L.positions, symbol,
                                NewPosition(symbol, order.avg_fill_price,
                                            order.fill_time))]
        ELSE IF statement = "entry_price"
          THEN [L EXCEPT !.positions[symbol].entry_price = res.position.entry_price]
        ELSE IF statement = "quantity"
          THEN [L EXCEPT !.positions[symbol].quantity = res.position.quantity]
        ELSE IF statement = "side"
          THEN [L EXCEPT !.positions[symbol].side = res.position.side]
        ELSE IF statement = "cash"
          THEN [L EXCEPT !.cash_balance =
                   IF order.action = "BUY" THEN RSub(L.cash_balance, order_value)
                                           ELSE RAdd(L.cash_balance, order_value)]
        ELSE IF statement = "realized"
          THEN [L EXCEPT !.realized_pnl = RAdd(L.realized_pnl, res.realized)]
        ELSE IF statement = "del"
          THEN IF res.closed
                 THEN [L EXCEPT !.positions = DictDel(L.positions, symbol)]
                 ELSE L
        ELSE IF symbol \in DOMAIN L.positions
          THEN [L EXCEPT !.positions[symbol].current_price = order.avg_fill_price]
          ELSE L

\* get_open_positions: list(self.positions.values())
GetOpenPositions(L) == {L.positions[s] : s \in DOMAIN L.positions}

\* place_order up to the call of _update_position_from_order, for an order
\* the simulated ledger fills
BeginFill ==
    /\ fill = None
    /\ paper_trading
    /\ order_counter < MaxOrders
    /\ \E symbol \in {OptionSymbol(3, 19750, "CE")}, action \in OrderActions,
          quantity \in OrderQuantities \ {0}, price \in OrderPrices \ {Zero} :
         \E X \in {Place(Current, symbol, action, quantity, price, "LIMIT",
                         NoneStr, now)} :
             /\ X.order # None
             /\ X.order.status = "FILLED"
             /\ fill' = [order |-> X.order,
                         res |-> FillResult(Ledger, X.order),
                         statements |->
                             FillStatements(
                                 IF symbol \in DOMAIN positions
                                   THEN positions[symbol]
                                   ELSE NewPosition(symbol, price, now),
                                 action, quantity),
                         done |-> 0,
                         before |-> GetOpenPositions(Ledger),
                         after |-> GetOpenPositions(X.L),
                         final |-> X]
    /\ order_counter' = order_counter + 1
    /\ snapshot' = None
    /\ UNCHANGED <<positions, orders, cash_balance, initial_capital, total_value,
                   paper_trading, realized_pnl, pending_orders, trades_history,
                   equity_curve>>
    /\ UNCHANGED <<callVars, botVars, envVars, obsVars, threadVars, chain_call>>

\* the next writing statement of _update_position_from_order
ApplyNext ==
    /\ fill # None
    /\ fill.done < Len(fill.statements)
    /\ \E L \in {ApplyStatement(Ledger, fill.order, fill.res,
                                 fill.statements[fill.done + 1])} :
         /\ positions' = L.positions
         /\ cash_balance' = L.cash_balance
         /\ realized_pnl' = L.realized_pnl
    /\ fill' = [fill EXCEPT !.done = fill.done + 1]
    /\ snapshot' = None
    /\ UNCHANGED <<orders, initial_capital, total_value, paper_trading,
                   order_counter, pending_orders, trades_history, equity_curve>>
    /\ UNCHANGED <<callVars, botVars, envVars, obsVars, threadVars, chain_call>>

\* _execute_paper_order after the fill: the order log, the trade history,
\* and place_order returns
FinishFill ==
    /\ fill # None
    /\ fill.done = Len(fill.statements)
    /\ Becomes(fill.final)
    /\ fill' = None
    /\ snapshot' = None
    /\ UNCHANGED <<initial_capital, total_value, paper_trading, equity_curve>>
    /\ UNCHANGED <<botVars, envVars, obsVars, threadVars, chain_call>>

\* the status reader calls get_open_positions
ReadStatus ==
    /\ snapshot' = [view |-> GetOpenPositions(Ledger),
                    before |-> IF fill = None THEN GetOpenPositions(Ledger)
                               ELSE fill.before,
                    after |-> IF fill = None THEN GetOpenPositions(Ledger)
                              ELSE fill.after]
    /\ UNCHANGED <<ledgerVars, callVars, botVars, envVars, obsVars, threadVars,
                   chain_call, fill>>

NextReader ==
    \/ Initialize
    \/ BeginFill
    \/ ApplyNext
    \/ FinishFill
    \/ ReadStatus

SpecReader == Init /\ [][NextReader]_vars

(***************************************************************************)
(* The simulated ledger after initialize(), driven with orders that fill   *)
(* and with update().                                                      *)
(***************************************************************************)
\* update()'s unrealized P&L of one position
UnrealizedPnl(position) ==
    LET current_price == position.current_price
        quantity == position.quantity
        entry_price == position.entry_price
    IN  IF quantity > 0
          THEN RMul(R(quantity), RSub(current_price, entry_price))
          ELSE RMul(R(Abs(quantity)), RSub(entry_price, current_price))

\* total_unrealized_pnl over the positions of symbols
RECURSIVE SumUnrealized(_, _)
SumUnrealized(P, symbols) ==
    IF symbols = {} THEN Zero
    ELSE LET symbol == CHOOSE x \in symbols : TRUE
         IN  RAdd(UnrealizedPnl(P[symbol]), SumUnrealized(P, symbols \ {symbol}))

\* sum(abs(pos['quantity']) * pos['current_price'] ...) over the positions
\* of symbols
RECURSIVE PositionsValue(_, _)
PositionsValue(P, symbols) ==
    IF symbols = {} THEN Zero
    ELSE LET symbol == CHOOSE x \in symbols : TRUE
         IN  RAdd(RMul(R(Abs(P[symbol].quantity)), P[symbol].current_price),
                  PositionsValue(P, symbols \ {symbol}))

\* update(): [positions, unrealized_pnl, total_value, total_pnl]
Update(P, cash, realized) ==
    LET total_unrealized_pnl == SumUnrealized(P, DOMAIN P)
        positions_value == PositionsValue(P, DOMAIN P)
    IN  [positions |-> [symbol \in DOMAIN P |->
                           [P[symbol] EXCEPT !.unrealized_pnl = UnrealizedPnl(P[symbol])]],
         unrealized_pnl |-> total_unrealized_pnl,
         total_value |-> RAdd(RAdd(cash, positions_value), total_unrealized_pnl),
         total_pnl |-> RAdd(realized, total_unrealized_pnl)]

\* the quantities and prices of the client's orders
FillQuantities == {5, 10, 15}
FillPrices == {R(100), R(120)}

\* the state after construction and initialize() in simulated mode
InitMoney ==
    /\ positions = EmptyDict
    /\ orders = EmptyDict
    /\ \E capital \in ConfiguredCapitals :
         /\ initial_capital = capital
         /\ cash_balance = capital
         /\ total_value = capital
         /\ equity_curve = <<[value |-> capital, pnl |-> Zero]>>
    /\ paper_trading = TRUE
    /\ realized_pnl = Zero
    /\ order_counter = 0
    /\ pending_orders = EmptyDict
    /\ trades_history = <<>>
    /\ call = None
    /\ ret = NoneStr
    /\ last_order = None
    /\ net_since_empty = EmptyDict
    /\ tick_calls = <<>>
    /\ InitBot
    /\ InitControls
    /\ NotStarted
    /\ InitSide
    /\ now = StartOfDay
    /\ ticks = 0

\* place_order(symbol, action, quantity, price) with a LIMIT order
FillCall ==
    /\ order_counter < MaxFills
    /\ \E symbol \in OrderSymbols, action \in OrderActions,
          quantity \in FillQuantities, price \in FillPrices :
         \E X \in {Place(Current, symbol, action, quantity, price, "LIMIT",
                         NoneStr, now)} : Becomes(X)
    /\ UNCHANGED <<initial_capital, total_value, paper_trading, equity_curve>>
    /\ UNCHANGED <<botVars, envVars, obsVars, sideVars>>

\* update()
UpdateCall ==
    /\ Len(equity_curve) <= MaxUpdates
    /\ \E u \in {Update(positions, cash_balance, realized_pnl)} :
         /\ positions' = u.positions
         /\ total_value' = u.total_value
         /\ equity_curve' =
               LET curve == Append(equity_curve,
                                   [value |-> u.total_value, pnl |-> u.total_pnl])
               IN  IF Len(curve) > 1000
                     THEN SubSeq(curve, Len(curve) - 999, Len(curve))
                     ELSE curve
    /\ UNCHANGED <<orders, cash_balance, initial_capital, paper_trading,
                   realized_pnl, order_counter, pending_orders, trades_history>>
    /\ UNCHANGED <<callVars, botVars, envVars, obsVars, sideVars>>

NextMoney ==
    \/ FillCall
    \/ UpdateCall

SpecMoney == InitMoney /\ [][NextMoney]_vars

(***************************************************************************)
(* Properties of the ledger.                                               *)
(***************************************************************************)
\* the signed quantity of a symbol in a positions dict, 0 without a record
QtyIn(P, s) == IF s \in DOMAIN P THEN P[s].quantity ELSE 0
\* its average entry price (weightless when the quantity is 0)
AvgIn(P, s) == IF s \in DOMAIN P THEN P[s].entry_price ELSE Zero

\* this step is a place_order call that filled an order
FillStep ==
    /\ order_counter' = order_counter + 1
    /\ last_order' # None
    /\ last_order'.status = "FILLED"

\* the fill of this step is in the direction of the position held before it
SameDirection ==
    \/ call'.action = "BUY" /\ QtyIn(positions, call'.symbol) >= 0
    \/ call'.action = "SELL" /\ QtyIn(positions, call'.symbol) <= 0

\* C1: after every fill, the signed quantity of each symbol (0 without a
\* record) is the sum of the signed fill deltas since the symbol last had no
\* position.
C1_QuantityIsSumOfDeltas ==
    \A s \in OrderSymbols :
        QtyIn(positions, s) = DictGet(net_since_empty, s, 0)

\* a long of 10 was sold 15 (or the like): the position flipped to short 5
C1_Witness ==
    \E s \in DOMAIN positions :
        /\ positions[s].quantity = -5
        /\ DictGet(net_since_empty, s, 0) = -5
        /\ call.symbol = s /\ call.action = "SELL" /\ call.quantity = 15

\* C2: a fill in the direction of the position accumulates the quantity and
\* makes the average entry price the quantity-weighted average of the old
\* average and the fill price; 10 @ 100 then 10 @ 120 gives 20 @ 110.
C2_SameDirectionAdd ==
    [][FillStep /\ SameDirection =>
        LET s == call'.symbol
            q == call'.quantity
            p == call'.price
            q0 == QtyIn(positions, s)
            e0 == AvgIn(positions, s)
        IN  /\ s \in DOMAIN positions'
            /\ positions'[s].quantity = q0 + SignedDelta(call'.action, q)
            /\ positions'[s].entry_price =
                   RDiv(RAdd(RMul(R(Abs(q0)), e0), RMul(R(q), p)), R(Abs(q0) + q))
            /\ (q0 = 10 /\ e0 = R(100) /\ q = 10 /\ p = R(120)
                    => positions'[s].quantity = 20
                       /\ positions'[s].entry_price = R(110))
    ]_vars

C2_Witness ==
    /\ call # None
    /\ call.action = "BUY" /\ call.quantity = 10 /\ call.price = R(120)
    /\ last_order.status = "FILLED"
    /\ call.symbol \in DOMAIN positions
    /\ positions[call.symbol].quantity = 20
    /\ positions[call.symbol].entry_price = R(110)

\* the fill of this step opposes a position held before it
Opposes ==
    \/ call'.action = "BUY" /\ QtyIn(positions, call'.symbol) < 0
    \/ call'.action = "SELL" /\ QtyIn(positions, call'.symbol) > 0

\* the P&L realized on `units` units of a position of quantity q0 and average
\* e0 closed at price p
RealizedOn(units, q0, e0, p) ==
    IF q0 > 0 THEN RMul(R(units), RSub(p, e0)) ELSE RMul(R(units), RSub(e0, p))

\* C3: an opposing fill of at most the held quantity realizes
\* fillQty x (fillPrice - oldAvg) for a long, fillQty x (oldAvg - fillPrice)
\* for a short, keeps the average, reduces |quantity| by fillQty and removes
\* the record exactly when the quantity reaches zero.
C3_Reduce ==
    [][FillStep /\ Opposes /\ call'.quantity <= Abs(QtyIn(positions, call'.symbol)) =>
        LET s == call'.symbol
            q == call'.quantity
            p == call'.price
            q0 == QtyIn(positions, s)
            e0 == AvgIn(positions, s)
        IN  /\ realized_pnl' = RAdd(realized_pnl, RealizedOn(q, q0, e0, p))
            /\ Abs(QtyIn(positions', s)) = Abs(q0) - q
            /\ (s \in DOMAIN positions' <=> Abs(q0) - q # 0)
            /\ (s \in DOMAIN positions' =>
                    /\ positions'[s].entry_price = e0
                    /\ positions'[s].quantity = q0 + SignedDelta(call'.action, q))
    ]_vars

\* 15 bought at 100, 10 of them sold at 120: 200 realized, 5 left at 100
C3_Witness ==
    /\ call # None
    /\ call.action = "SELL" /\ call.quantity = 10 /\ call.price = R(120)
    /\ last_order.status = "FILLED"
    /\ call.symbol \in DOMAIN positions
    /\ positions[call.symbol].quantity = 5
    /\ positions[call.symbol].entry_price = R(100)
    /\ realized_pnl = R(200)

\* C4: an opposing fill of more than the held quantity realizes P&L on the
\* held quantity only and leaves the remainder as a position in the opposite
\* direction at the fill price; long 10 @ 100 sold 15 leaves short 5.
C4_Flip ==
    [][FillStep /\ Opposes /\ call'.quantity > Abs(QtyIn(positions, call'.symbol)) =>
        LET s == call'.symbol
            q == call'.quantity
            p == call'.price
            q0 == QtyIn(positions, s)
            e0 == AvgIn(positions, s)
        IN  /\ realized_pnl' = RAdd(realized_pnl, RealizedOn(Abs(q0), q0, e0, p))
            /\ s \in DOMAIN positions'
            /\ positions'[s].quantity =
                   (IF q0 > 0 THEN -1 ELSE 1) * (q - Abs(q0))
            /\ positions'[s].entry_price = p
            /\ positions'[s].side = (IF q0 > 0 THEN "SHORT" ELSE "LONG")
            /\ (q0 = 10 /\ e0 = R(100) /\ call'.action = "SELL" /\ q = 15
                    => /\ realized_pnl' =
                            RAdd(realized_pnl, RMul(R(10), RSub(p, R(100))))
                       /\ positions'[s].quantity = -5)
    ]_vars

\* long 10 @ 100, then 15 sold at 120: 200 realized, short 5 @ 120
C4_Witness ==
    /\ call # None
    /\ call.action = "SELL" /\ call.quantity = 15 /\ call.price = R(120)
    /\ last_order.status = "FILLED"
    /\ call.symbol \in DOMAIN positions
    /\ positions[call.symbol].quantity = -5
    /\ positions[call.symbol].entry_price = R(120)
    /\ positions[call.symbol].side = "SHORT"
    /\ realized_pnl = R(200)

\* C5: no position record has quantity zero, and a record's side is LONG
\* iff its quantity is positive and SHORT iff it is negative.
C5_NoZeroQuantityRecord ==
    \A s \in DOMAIN positions :
        /\ positions[s].quantity # 0
        /\ (positions[s].side = "LONG" <=> positions[s].quantity > 0)
        /\ (positions[s].side = "SHORT" <=> positions[s].quantity < 0)

\* a short was covered in full: the fill removed the record
C5_Witness ==
    /\ call # None
    /\ call.action = "BUY"
    /\ last_order # None
    /\ last_order.status = "FILLED"
    /\ call.symbol \notin DOMAIN positions
    /\ realized_pnl # Zero

\* C6: place_order returns failure if quantity <= 0; it rejects price <= 0
\* only when the order type is not MARKET: a MARKET order with price 0 and
\* quantity > 0 is accepted and processed.
C6_ParameterCheck ==
    call # None =>
        /\ (call.quantity <= 0 => ret = NoneStr /\ last_order = None)
        /\ (call.quantity > 0 /\ RLe(call.price, Zero) /\ call.order_type # "MARKET"
                => ret = NoneStr /\ last_order = None)
        /\ (call.quantity > 0 /\ call.order_type = "MARKET"
                => ret # NoneStr /\ last_order # None)

\* C7: in simulated mode a BUY whose quantity x price exceeds the cash
\* balance leaves positions, cash, realized P&L, order log and trade history
\* unchanged and reports failure; any other valid order is FILLED at the
\* given price and its fill is applied.
C7_InsufficientFunds ==
    [][order_counter' = order_counter + 1 /\ paper_trading =>
        LET value == RMul(R(call'.quantity), call'.price)
        IN  IF call'.action = "BUY" /\ RGt(value, cash_balance)
              THEN /\ positions' = positions
                   /\ cash_balance' = cash_balance
                   /\ realized_pnl' = realized_pnl
                   /\ orders' = orders
                   /\ trades_history' = trades_history
                   /\ ret' = NoneStr
              ELSE /\ last_order'.status = "FILLED"
                   /\ last_order'.avg_fill_price = call'.price
                   /\ last_order'.filled_quantity = call'.quantity
                   /\ QtyIn(positions', call'.symbol) =
                          QtyIn(positions, call'.symbol)
                              + SignedDelta(call'.action, call'.quantity)
    ]_vars

(***************************************************************************)
(* Properties of the trailing stop.                                        *)
(***************************************************************************)
RMax(a, b) == IF RGe(a, b) THEN a ELSE b

\* this step is a loop iteration in which the monitor computed a P&L
MonitorStep == ticks' = ticks + 1 /\ tick_pnl' # None

\* C8: while the trailing stop stays active, the stop level never decreases
\* from one tick to the next, and after each tick it is
\* max(previous stop level, highest P&L - buffer).
C8_StopNeverDecreases ==
    [][trailing_sl_active /\ trailing_sl_active' =>
        /\ RGe(current_sl_level', current_sl_level)
        /\ current_sl_level' =
               RMax(current_sl_level, RSub(highest_profit', R(50)))
    ]_vars

\* activated at 320, raised to 330 by 380, and held at 330 when the P&L
\* fell back to 340
C8_Witness ==
    /\ trailing_sl_active
    /\ matched = 4
    /\ tick_pnl = R(340)
    /\ highest_profit = R(380)
    /\ current_sl_level = R(330)

\* C9: an inactive trailing stop stays inactive on every tick whose combined
\* P&L is below 300; on the first tick whose P&L is >= 300 it becomes active
\* with stop level P&L - 50, and that tick does not close the position.
C9_Activation ==
    [][~trailing_sl_active /\ ticks' = ticks + 1 =>
        IF tick_pnl' # None /\ RGe(tick_pnl', R(300))
          THEN /\ trailing_sl_active'
               /\ current_sl_level' = RSub(tick_pnl', R(50))
               /\ bot_positions' = bot_positions
               /\ bot_positions' # EmptyDict
               /\ last_sl_hit_time' = last_sl_hit_time
          ELSE ~trailing_sl_active'
    ]_vars

\* the stop was activated by a P&L of exactly the threshold
C9_Witness ==
    /\ trailing_sl_active
    /\ tick_pnl = R(300)
    /\ highest_profit = R(300)
    /\ current_sl_level = R(250)
    /\ bot_positions # EmptyDict

\* C10: a tick closes the strategy position iff the stop is active and the
\* P&L is <= the stop level as updated in that tick; the close resets the
\* trailing state to (0, false, 0).  For the P&L sequence
\* 0, 320, 380, 340, 290: active with stop 270 at 320, stop 330 after 380,
\* no breach at 340, breach at 290.
C10_Breach ==
    /\ [][MonitorStep =>
            LET pnl == tick_pnl'
                act == trailing_sl_active \/ RGe(pnl, R(300))
                hi == RMax(highest_profit, pnl)
                sl == IF trailing_sl_active
                        THEN RMax(current_sl_level, RSub(hi, R(50)))
                        ELSE RMax(RSub(pnl, R(50)), RSub(hi, R(50)))
                breach == act /\ RLe(pnl, sl)
            IN  /\ breach <=> bot_positions' = EmptyDict
                /\ breach => /\ highest_profit' = Zero
                             /\ ~trailing_sl_active'
                             /\ current_sl_level' = Zero
                /\ ~breach => /\ bot_positions' = bot_positions
                              /\ trailing_sl_active' = act
                              /\ act => current_sl_level' = sl
       ]_vars
    /\ [](/\ matched = 1 => ~trailing_sl_active /\ bot_positions # EmptyDict
          /\ matched = 2 => trailing_sl_active /\ current_sl_level = R(270)
          /\ matched = 3 => trailing_sl_active /\ current_sl_level = R(330)
          /\ matched = 4 => /\ trailing_sl_active
                            /\ current_sl_level = R(330)
                            /\ bot_positions # EmptyDict
          /\ matched = 5 => /\ bot_positions = EmptyDict
                            /\ ~trailing_sl_active
                            /\ highest_profit = Zero
                            /\ current_sl_level = Zero)

\* the example ran to its end: the tick with P&L 290 closed the position
C10_Witness ==
    /\ matched = 5
    /\ tick_pnl = R(290)
    /\ bot_positions = EmptyDict
    /\ last_sl_hit_time = now

(***************************************************************************)
(* Properties of the engine's transitions.                                 *)
(***************************************************************************)
\* a loop iteration
TickStep == ticks' = ticks + 1

\* the iteration called _enter_options_strategy
EntryStep == TickStep /\ tick_branch' = "enter"

\* the time is inside the trading window, 09:20 to 15:30
InWindow(t) == t % 1440 >= 9 * 60 + 20 /\ t % 1440 <= 15 * 60 + 30

\* the time is on a Thursday at or after 14:00
AtCutoff(t) == (t \div 1440) % 7 = 3 /\ t % 1440 >= 14 * 60

\* no re-entry delay runs at time t
DelayOver(marker, t) == marker = NoTime \/ t >= marker + 5

\* calls are the four leg orders around the strike atm: BUY the call 250
\* above, SELL the call 150 above, BUY the put 250 below, SELL the put 150
\* below, 65 units each
FourLegs(calls, atm) ==
    /\ Len(calls) = 4
    /\ \A i \in 1..4 : calls[i].quantity = 65
    /\ calls[1].action = "BUY" /\ calls[1].symbol[3] = atm + 250
    /\ calls[1].symbol[4] = "CE"
    /\ calls[2].action = "SELL" /\ calls[2].symbol[3] = atm + 150
    /\ calls[2].symbol[4] = "CE"
    /\ calls[3].action = "BUY" /\ calls[3].symbol[3] = atm - 250
    /\ calls[3].symbol[4] = "PE"
    /\ calls[4].action = "SELL" /\ calls[4].symbol[3] = atm - 150
    /\ calls[4].symbol[4] = "PE"

C12_EntryWhenClear ==
    [][(/\ TickStep
        /\ bot_positions = EmptyDict
        /\ ~pause_file
        /\ InWindow(now)
        /\ ~AtCutoff(now)
        /\ DelayOver(last_sl_hit_time, now)
        /\ tick_branch' # "no_ltp")
       => /\ FourLegs(tick_calls', 19500)
          /\ paper_trading => bot_positions' # EmptyDict
      ]_vars

\* C13: when a leg order of an entry fails, the engine records no strategy
\* position and leaves the trailing state alone, and it places nothing but
\* the four leg orders: no order unwinds a leg, the legs that filled stay in
\* the ledger, and without a fill the ledger's positions are as before.
C13_AbandonedEntry ==
    [][(EntryStep /\ \E i \in DOMAIN tick_calls' : tick_calls'[i].ret = NoneStr)
       => /\ bot_positions' = EmptyDict
          /\ highest_profit' = highest_profit
          /\ trailing_sl_active' = trailing_sl_active
          /\ current_sl_level' = current_sl_level
          /\ last_sl_hit_time' = last_sl_hit_time
          /\ FourLegs(tick_calls', 19500)
          /\ \A i \in DOMAIN tick_calls' :
               tick_calls'[i].status = "FILLED"
                 => tick_calls'[i].symbol \in DOMAIN positions'
          /\ (\A i \in DOMAIN tick_calls' : tick_calls'[i].status # "FILLED")
               => /\ positions' = positions
                  /\ cash_balance' = cash_balance
      ]_vars

\* an entry was tried, a leg failed and no strategy position was recorded
C13_Witness ==
    /\ tick_branch = "enter"
    /\ Len(tick_calls) = 4
    /\ \E i \in 1..4 : tick_calls[i].ret = NoneStr
    /\ bot_positions = EmptyDict

\* C14: once a stop-triggered exit has set last_sl_hit_time, no iteration
\* enters while the time is less than 5 minutes past it, the iteration of
\* the stop included; an iteration at 5 minutes or more past it, otherwise
\* free to enter, does enter.
C14_Cooldown ==
    /\ [][(/\ TickStep
           /\ last_sl_hit_time' # NoTime
           /\ now < last_sl_hit_time' + 5)
          => /\ tick_branch' # "enter"
             /\ bot_positions' = EmptyDict \/ bot_positions' = bot_positions
         ]_vars
    /\ [][(/\ TickStep
           /\ last_sl_hit_time # NoTime
           /\ now >= last_sl_hit_time + 5
           /\ bot_positions = EmptyDict
           /\ ~pause_file
           /\ InWindow(now)
           /\ ~AtCutoff(now)
           /\ tick_branch' # "no_ltp")
          => tick_branch' = "enter" /\ Len(tick_calls') = 4
         ]_vars

\* after a stop-triggered exit and the delay, an iteration entered again
C14_Witness ==
    /\ last_sl_hit_time # NoTime
    /\ now >= last_sl_hit_time + 5
    /\ tick_branch = "enter"
    /\ Len(tick_calls) = 4

\* the iteration closed the strategy position on a breach of the stop
StopExitStep ==
    /\ TickStep
    /\ tick_branch' = "monitor"
    /\ bot_positions # EmptyDict
    /\ bot_positions' = EmptyDict

\* the iteration closed the strategy position on the forced exit
ForcedExitStep ==
    /\ TickStep
    /\ tick_branch' = "force_exit"
    /\ bot_positions # EmptyDict

\* C15: last_sl_hit_time is written only by the iteration that closes on a
\* breach of the stop, which sets it to the time of the close; the forced
\* exit leaves it as it was and leaves the engine without a strategy
\* position, and the shutdown leaves it as it was.
C15_MarkerOnlyOnStop ==
    /\ [][last_sl_hit_time' # last_sl_hit_time
            => StopExitStep /\ last_sl_hit_time' = now]_vars
    /\ [][StopExitStep => last_sl_hit_time' = now]_vars
    /\ [][ForcedExitStep
            => /\ last_sl_hit_time' = last_sl_hit_time
               /\ bot_positions' = EmptyDict]_vars
    /\ [][(running /\ ~running') => last_sl_hit_time' = last_sl_hit_time]_vars

\* a forced exit closed a strategy position and no marker was written
C15_Witness ==
    /\ tick_branch = "force_exit"
    /\ Len(tick_calls) = 4
    /\ bot_positions = EmptyDict
    /\ last_sl_hit_time = NoTime

\* C16: _should_force_exit is true only on a Thursday at or after 14:00, and
\* an iteration takes the forced-exit branch only then.
C16_ForcedExitOnlyAtCutoff ==
    /\ [](ShouldForceExit(now) => AtCutoff(now))
    /\ [][(TickStep /\ tick_branch' = "force_exit") => AtCutoff(now)]_vars

\* the forced exit fired, on a Thursday
C16_Witness ==
    /\ tick_branch = "force_exit"
    /\ ShouldForceExit(now)
    /\ (now \div 1440) % 7 = 3

\* what the forced exit does to a held strategy position: a closing order
\* for each leg, no P&L computed, no marker, the trailing state reset
ForcedClose ==
    /\ tick_branch' = "force_exit"
    /\ tick_pnl' = None
    /\ bot_positions' = EmptyDict
    /\ Len(tick_calls') = 4
    /\ \A i \in 1..4 :
         /\ tick_calls'[i].symbol = bot_positions.orders[i].symbol
         /\ tick_calls'[i].action # bot_positions.orders[i].action
         /\ tick_calls'[i].quantity = bot_positions.orders[i].quantity
    /\ last_sl_hit_time' = last_sl_hit_time
    /\ highest_profit' = Zero
    /\ ~trailing_sl_active'
    /\ current_sl_level' = Zero

C18_EmergencyBlocksEntry ==
    [][(TickStep /\ emergency_file) => tick_branch' # "enter"]_vars

ResumeStep ==
    /\ control_op' # None
    /\ control_op'.op = "resume"
    /\ <<pause_file, control_op>>' # <<pause_file, control_op>>

\* C20: resume_trading on a gate that is not paused returns True and
\* changes nothing; after any resume_trading, also one that follows
\* pause_trading, the gate is not paused and the call returned True.
C20_ResumeIdempotent ==
    /\ [][ResumeStep
            => /\ control_op'.ret = TRUE
               /\ ~pause_file'
               /\ emergency_file' = emergency_file
               /\ UNCHANGED <<ledgerVars, callVars, botVars, obsVars, now, ticks>>
         ]_vars
    /\ []((control_op # None /\ control_op.op = "resume")
            => control_op.ret = TRUE /\ ~pause_file)

\* resume_trading returned True on a gate left not paused, the emergency
\* stop still set
C20_Witness ==
    /\ control_op = [op |-> "resume", ret |-> TRUE]
    /\ ~pause_file
    /\ emergency_file

(***************************************************************************)
(* Properties of missing data and of the live ledger.                      *)
(***************************************************************************)
\* the engine's own state and the ledger are as they were
EngineUntouched ==
    /\ bot_positions' = bot_positions
    /\ highest_profit' = highest_profit
    /\ trailing_sl_active' = trailing_sl_active
    /\ current_sl_level' = current_sl_level
    /\ last_sl_hit_time' = last_sl_hit_time
    /\ UNCHANGED ledgerVars

\* C21: an iteration that asks the feed for the index price and gets none
\* (no data, or a price of 0) places no order and leaves the strategy
\* position, the trailing state, last_sl_hit_time and the ledger as they
\* were.
C21_NoIndexPriceNoMutation ==
    [][(TickStep /\ tick_branch' = "no_ltp")
       => /\ tick_calls' = <<>>
          /\ tick_pnl' = None
          /\ EngineUntouched
      ]_vars

\* an iteration without an index price left an armed stop and its position
\* alone
C21_Witness ==
    /\ tick_branch = "no_ltp"
    /\ bot_positions # EmptyDict
    /\ trailing_sl_active
    /\ current_sl_level = R(270)

\* C27: in live mode a place_order call whose order the broker accepted
\* leaves the order PLACED and in pending_orders, and positions, cash
\* balance and realized P&L as they were.
C27_LivePlacedNoAccounting ==
    [][(/\ order_counter' = order_counter + 1
        /\ ~paper_trading
        /\ last_order'.status # "REJECTED")
       => /\ last_order'.status = "PLACED"
          /\ ret' = last_order'.order_id
          /\ ret' \in DOMAIN pending_orders'
          /\ pending_orders'[ret'] = "PLACED"
          /\ ret' \notin DOMAIN orders'
          /\ trades_history' = trades_history
          /\ positions' = positions
          /\ cash_balance' = cash_balance
          /\ realized_pnl' = realized_pnl
      ]_vars

\* a live order was accepted after another: two pending, nothing booked
C27_Witness ==
    /\ ~paper_trading
    /\ last_order # None
    /\ last_order.status = "PLACED"
    /\ order_counter = 2
    /\ Cardinality(DOMAIN pending_orders) = 2
    /\ positions = EmptyDict
    /\ cash_balance = R(5000)

LegStrike(i) == chain_call.legs[i].symbol[3]
\* the day of the expiry of leg i of the engine
LegExpiry(i) == chain_call.legs[i].symbol[2]

\* C28: for a positive index price the ATM strike is a multiple of 50 at
\* most 25 from the price, and for each level L the CE strike is
\* ATM + 50 L and the PE strike ATM - 50 L; price 19500 with levels {3, 5}
\* gives 19500, 19650, 19350, 19750, 19250.  The engine's SELL legs are at
\* the level-3 strikes and its BUY legs at the level-5 strikes.
C28_Strikes ==
    chain_call # None =>
        LET price == chain_call.nifty_price
            strikes == chain_call.strikes
            atm == strikes["atm"]
        IN  /\ atm % 50 = 0
            /\ RLe(RSub(price, R(atm)), R(25))
            /\ RLe(RSub(R(atm), price), R(25))
            /\ \A level \in chain_call.otm_levels :
                 /\ strikes[CeKey(level)] = atm + 50 * level
                 /\ strikes[PeKey(level)] = atm - 50 * level
            /\ (price = R(19500) /\ chain_call.otm_levels = {3, 5})
                 => /\ atm = 19500
                    /\ strikes["ce_3otm"] = 19650 /\ strikes["pe_3otm"] = 19350
                    /\ strikes["ce_5otm"] = 19750 /\ strikes["pe_5otm"] = 19250
            /\ \A i \in 1..4 :
                 LET leg == chain_call.legs[i]
                     level == IF leg.action = "SELL" THEN 3 ELSE 5
                 IN  /\ LegStrike(i) = IF leg.symbol[4] = "CE"
                                         THEN atm + 50 * level
                                         ELSE atm - 50 * level
                     /\ level \in chain_call.otm_levels
                          => LegStrike(i) = IF leg.symbol[4] = "CE"
                                              THEN strikes[CeKey(level)]
                                              ELSE strikes[PeKey(level)]
            /\ {chain_call.legs[i].action : i \in {2, 4}} = {"SELL"}
            /\ {chain_call.legs[i].action : i \in {1, 3}} = {"BUY"}
            /\ {chain_call.legs[i].symbol[4] : i \in {1, 2}} = {"CE"}
            /\ {chain_call.legs[i].symbol[4] : i \in {3, 4}} = {"PE"}

\* a price midway between two strikes went to the even multiple, 25 away
C28_Witness ==
    /\ chain_call # None
    /\ chain_call.nifty_price = R(19525)
    /\ chain_call.otm_levels = {3, 5}
    /\ chain_call.strikes["atm"] = 19500
    /\ chain_call.strikes["ce_5otm"] = 19750
    /\ LegStrike(1) = 19750

\* the expiry day e is the one the claim names for time t
ExpiryAsClaimed(e, t) ==
    /\ e % 7 = 3
    /\ IF (t \div 1440) % 7 = 3
         THEN IF t % 1440 < 15 * 60 THEN e = t \div 1440
                                    ELSE e = t \div 1440 + 7
         ELSE e - t \div 1440 \in 1..6

\* C29: the expiry is always a Thursday: today on a Thursday before 15:00,
\* the Thursday 7 days on on a Thursday from 15:00, and otherwise the next
\* Thursday, 1 to 6 days on; the same for OptionsChain and for the symbols
\* of the engine's legs.
C29_Expiry ==
    chain_call # None =>
        /\ ExpiryAsClaimed(chain_call.expiry, now)
        /\ \A i \in 1..4 : ExpiryAsClaimed(LegExpiry(i), now)

\* on a Thursday at 15:00 the expiry is the Thursday after
C29_Witness ==
    /\ chain_call # None
    /\ now = 3 * 1440 + 15 * 60
    /\ chain_call.expiry = 10
    /\ LegExpiry(1) = 10

(***************************************************************************)
(* Properties of start-up, failure and shutdown.                           *)
(***************************************************************************)
\* C22: when auth.login() or market_data.start() fails, start() returns
\* False, running stays False and no trading thread exists: no iteration
\* ever runs.
C22_FailedStart ==
    (start_op # None /\ ~(start_op.login /\ start_op.feed))
        => /\ start_op.ret = FALSE
           /\ ~running
           /\ loop_pc = "none"
           /\ ticks = 0
           /\ tick_branch = NoneStr
           /\ tick_calls = <<>>

\* the login succeeded and the feed did not start
C22_Witness ==
    /\ start_op # None
    /\ start_op.login
    /\ ~start_op.feed
    /\ start_op.ret = FALSE
    /\ ~running

\* C23: an iteration in which get_symbol_data raises places no order and
\* leaves the engine's state and the ledger as they were, and the thread is
\* back at the while with running as it was; the loop ends only when
\* running is False, and while running is True the thread can always take
\* its next step.
C23_FailureKeepsLoop ==
    /\ [][(TickStep /\ "feed_error" \in tick_events')
            => /\ EngineUntouched
               /\ tick_calls' = <<>>
               /\ loop_pc' = "top"
               /\ running' = running
         ]_vars
    /\ [][(loop_pc # "ended" /\ loop_pc' = "ended") => ~running]_vars
    /\ []((loop_pc = "top" /\ running /\ ticks < MaxTicks) => ENABLED LoopTop)
    /\ [](loop_pc = "body" => ENABLED LoopBody)

\* the feed raised for a leg while the stop was armed at 270: nothing
\* changed and the thread went on
C23_Witness ==
    /\ "feed_error" \in tick_events
    /\ tick_branch = "monitor"
    /\ trailing_sl_active
    /\ current_sl_level = R(270)
    /\ bot_positions # EmptyDict
    /\ loop_pc = "top"
    /\ running

\* C24: once stop() has set running to False the trading thread leaves the
\* loop: at the while it does not go into the body again, it ends, and no
\* iteration runs after that.
C24_CooperativeShutdown ==
    /\ (stopper.pc # "idle") ~> (loop_pc = "ended")
    /\ [][(loop_pc = "top" /\ ~running) => loop_pc' # "body"]_vars
    /\ [][loop_pc = "ended" => (loop_pc' = "ended" /\ ticks' = ticks)]_vars

\* stop() returned and the trading thread, after some iterations, ended
C24_Witness ==
    /\ loop_pc = "ended"
    /\ stopper.pc = "done"
    /\ ~running
    /\ ticks > 0

\* the iteration issued the closing orders of the strategy position
LoopCloseStep ==
    /\ TickStep
    /\ bot_positions # EmptyDict
    /\ bot_positions' = EmptyDict

C26_PointInTimeSnapshot ==
    snapshot # None => snapshot.view \in {snapshot.before, snapshot.after}

(***************************************************************************)
(* The engine's cycles: trailing state, exits, entries.                    *)
(***************************************************************************)
\* the trailing state is that of a fresh cycle
TrailingReset ==
    /\ highest_profit = Zero
    /\ trailing_sl_active = FALSE
    /\ current_sl_level = Zero

\* C31: whenever the engine holds no strategy position the trailing state is
\* (highest profit 0, not active, stop level 0), and a step that records a
\* strategy position leaves the trailing state at those values: nothing of a
\* cycle's trailing state is left for the next
C31_TrailingResetBetweenCycles ==
    /\ [](bot_positions = EmptyDict => TrailingReset)
    /\ [][bot_positions = EmptyDict /\ bot_positions' # EmptyDict
            => TrailingReset']_vars

\* an iteration closed the position on a breach of the stop, which the
\* cycle's profit had armed, and the trailing state is that of a fresh cycle
C31_Witness ==
    /\ bot_positions = EmptyDict
    /\ tick_pnl # None
    /\ last_sl_hit_time # NoTime
    /\ tick_branch = "monitor"
    /\ TrailingReset

ClosingCall(c, order_list) ==
    \E j \in 1..Len(order_list) :
        /\ c.symbol = order_list[j].symbol
        /\ c.action # order_list[j].action
        /\ c.quantity = order_list[j].quantity

\* C33: an iteration that finds a strategy position does not call
\* _enter_options_strategy, places no order other than the closing orders of
\* the held legs, and ends with the same position or with none; so the
\* iteration that closes on a breach of the stop opens no new position.
C33_AtMostOnePosition ==
    [][(TickStep /\ bot_positions # EmptyDict)
       => /\ tick_branch' # "enter"
          /\ bot_positions' \in {bot_positions, EmptyDict}
          /\ \A i \in DOMAIN tick_calls' :
                 ClosingCall(tick_calls'[i], bot_positions.orders)
      ]_vars

\* the iteration that closed on the breach placed the four closing orders
\* and nothing else, and the engine holds no position
C33_Witness ==
    /\ bot_positions = EmptyDict
    /\ last_sl_hit_time = now
    /\ tick_branch = "monitor"
    /\ tick_pnl # None
    /\ Len(tick_calls) = 4
    /\ tick_calls[1].action = "SELL"

\* C34: an iteration on a Thursday at or after 14:00 does not call
\* _enter_options_strategy, places no order other than the closing orders of
\* legs it found held, and ends without a strategy position it did not find.
C34_NoEntryAfterCutoff ==
    [][(TickStep /\ AtCutoff(now))
       => /\ tick_branch' # "enter"
          /\ bot_positions' \in {bot_positions, EmptyDict}
          /\ \A i \in DOMAIN tick_calls' :
                 ClosingCall(tick_calls'[i], HeldOrders)
      ]_vars

\* an iteration inside the window at or after the cutoff that nothing else
\* kept from entering (gate clear, no position, no re-entry delay) took the
\* forced-exit branch and placed no order
C34_Witness ==
    /\ tick_branch = "force_exit"
    /\ AtCutoff(now)
    /\ InWindow(now)
    /\ ~pause_file
    /\ bot_positions = EmptyDict
    /\ last_sl_hit_time = NoTime
    /\ tick_calls = <<>>

(***************************************************************************)
(* The trading window.                                                     *)
(***************************************************************************)
\* the minutes at and next to the two ends of the window, on a Wednesday
\* and on a Thursday
WindowEdges ==
    {d * 1440 + m : d \in {2, 3},
                    m \in {9 * 60 + 19, 9 * 60 + 20, 15 * 60 + 30, 15 * 60 + 31}}

\* C35: the trading window is 09:20 to 15:30, both included, and an
\* iteration at a time outside it places no order, computes no P&L and
\* leaves the strategy position, the trailing state and last_sl_hit_time
\* (and the ledger) as they were: it ends at the pause check or at the
\* trading-hours check.
C35_OutsideWindowNoEffect ==
    /\ [](\A t \in WindowEdges : IsTradingTime(t) <=> InWindow(t))
    /\ [][(TickStep /\ ~InWindow(now))
            => /\ tick_branch' \in {"paused", "outside_hours"}
               /\ tick_calls' = <<>>
               /\ tick_pnl' = None
               /\ EngineUntouched
          ]_vars

\* on a Thursday after 15:30 an iteration with the gate clear left a held
\* position with an armed stop alone: no forced exit, no monitoring
C35_Witness ==
    /\ tick_branch = "outside_hours"
    /\ AtCutoff(now)
    /\ ~InWindow(now)
    /\ ~pause_file
    /\ bot_positions # EmptyDict
    /\ trailing_sl_active

(***************************************************************************)
(* The shutdown and the iteration in progress.                             *)
(***************************************************************************)
\* C36: once stop() has set running to False and called close_all_positions,
\* no iteration of the trading loop calls _enter_options_strategy, places an
\* entry order or records a strategy position it did not find.
C36_NoEntryAfterStop ==
    [][(TickStep /\ ~running /\ stopper.pc # "idle")
       => /\ tick_branch' # "enter"
          /\ bot_positions' \in {bot_positions, EmptyDict}
          /\ \A i \in DOMAIN tick_calls' :
                 ClosingCall(tick_calls'[i], HeldOrders)
      ]_vars

(***************************************************************************)
(* Money accounting of the simulated ledger.                               *)
(***************************************************************************)
\* C37: in the simulated ledger the cash balance is never negative, after
\* any sequence of place_order calls, filled or rejected, BUY or SELL.
C37_CashNeverNegative ==
    paper_trading => RGe(cash_balance, Zero)

\* a BUY larger than the short it met was filled: it covered the short at a
\* profit or a loss and went long, and the cash balance is below the capital
\* the ledger was initialized with
C37_Witness ==
    /\ paper_trading
    /\ call # None
    /\ call.action = "BUY"
    /\ last_order # None
    /\ last_order.status = "FILLED"
    /\ call.symbol \in DOMAIN positions
    /\ positions[call.symbol].quantity > 0
    /\ positions[call.symbol].quantity < call.quantity
    /\ realized_pnl # Zero
    /\ RLt(cash_balance, R(3000))

\* C38: in the simulated ledger, whenever no position is open, the cash
\* balance less the cash balance the ledger started with is the realized
\* P&L accumulated, whatever the fills were.
C38_NoDrift ==
    (paper_trading /\ positions = EmptyDict)
        => RSub(cash_balance, initial_capital) = realized_pnl

\* the ledger is flat after three fills, the last of them a BUY of 5 that
\* covered what was left of a short, and has realized a loss of 300
C38_Witness ==
    /\ paper_trading
    /\ positions = EmptyDict
    /\ order_counter = 3
    /\ Len(trades_history) = 3
    /\ call.action = "BUY"
    /\ call.quantity = 5
    /\ last_order.status = "FILLED"
    /\ realized_pnl = R(0 - 300)
    /\ cash_balance = R(2700)

\* this step is an update() call
UpdateStep == Len(equity_curve') = Len(equity_curve) + 1

\* the sum of the unrealized P&L stored in the positions of symbols
RECURSIVE StoredUnrealized(_, _)
StoredUnrealized(P, symbols) ==
    IF symbols = {} THEN Zero
    ELSE LET symbol == CHOOSE x \in symbols : TRUE
         IN  RAdd(P[symbol].unrealized_pnl, StoredUnrealized(P, symbols \ {symbol}))

\* C39: after update() the unrealized P&L of every position is
\* quantity * (current price - entry price) for a long and
\* |quantity| * (entry price - current price) for a short, the total P&L is
\* the realized P&L plus the unrealized P&L of all positions, and the total
\* portfolio value is the starting cash balance plus the total P&L.
C39_UpdateTotals ==
    [][UpdateStep
       => LET total_pnl == equity_curve'[Len(equity_curve')].pnl
          IN  /\ \A symbol \in DOMAIN positions' :
                   LET position == positions'[symbol]
                   IN  position.unrealized_pnl =
                         IF position.quantity > 0
                           THEN RMul(R(position.quantity),
                                     RSub(position.current_price,
                                          position.entry_price))
                           ELSE RMul(R(0 - position.quantity),
                                     RSub(position.entry_price,
                                          position.current_price))
              /\ total_pnl = RAdd(realized_pnl',
                                  StoredUnrealized(positions', DOMAIN positions'))
              /\ total_value' = RAdd(initial_capital, total_pnl)
      ]_vars

====
